---- MODULE Spec2Model ----
(***************************************************************************)
(* Routing / state / lifecycle engine of the docker awakening gateway:     *)
(* ContainerManager (gateway/manager.go), Server dispatch and hot reload   *)
(* (gateway/server.go), GroupRouter and TopologicalSort.                   *)
(***************************************************************************)
EXTENDS Integers, Sequences, FiniteSets, TLC

\* ------------------------------------------------------------------ bounds
MaxReq == 2
MaxLockReq == 2
MaxDepReq == 2
MaxChainReq == 1
MaxBusy == 2
MaxSnapReq == 2
MaxSweepReq == 1
MaxWrapPicks == 4
MaxTime == 1
MaxPicks == 7
MaxReloads == 1
MaxLookups == 1
MaxPasses == 2
MaxSighups == 1
MaxDynLen == 3
MaxDepLen == 2
MaxCatLen == 2
MaxRateCallers == 2
MaxRateCalls == 3
MaxRateTime == 5

\* ------------------------------------------------------- catalog (fixtures)
\* A Host header is the sequence of its ":"-separated segments, so that
\* strings.LastIndex(host, ":") / host[:idx] is SubSeq(h, 1, Len(h)-1).
NoHost == <<"">>

Cont(n, h, d, i) == [name |-> n, host |-> h, deps |-> d, idle |-> i]

Grp(n, h, c) == [name |-> n, host |-> h, containers |-> c]

CatSingle ==
  [containers |-> << Cont("w", <<"w.localhost">>, <<>>, 1) >>,
   groups |-> <<>>]

CatChain ==
  [containers |-> << Cont("app", <<"app.localhost">>, <<"api">>, 0),
                     Cont("api", NoHost, <<"db">>, 0),
                     Cont("db", NoHost, <<>>, 0) >>,
   groups |-> <<>>]

CatGroup ==
  [containers |-> << Cont("m1", NoHost, <<"db">>, 0),
                     Cont("db", NoHost, <<>>, 0) >>,
   groups |-> << Grp("g", <<"g.localhost">>, <<"m1">>) >>]

CatPair ==
  [containers |-> << Cont("a", <<"a.localhost">>, <<>>, 0),
                     Cont("b", <<"b.localhost">>, <<>>, 0) >>,
   groups |-> <<>>]

\* two workloads, each with an idle timeout
CatIdlePair ==
  [containers |-> << Cont("a", <<"a.localhost">>, <<>>, 1),
                     Cont("b", <<"b.localhost">>, <<>>, 1) >>,
   groups |-> <<>>]

AllNames == {"w", "a", "b", "app", "api", "db", "m1"}

Range(s) == {s[i] : i \in 1..Len(s)}

NamesOf(c) == {c.containers[i].name : i \in 1..Len(c.containers)}

SetMax(S) == CHOOSE x \in S : \A y \in S : y <= x

SetMin(S) == CHOOSE x \in S : \A y \in S : x <= y

\* ------------------------------------------------------------ index build
BuildHostIndex(c) ==
  LET hs == {c.containers[i].host : i \in 1..Len(c.containers)} \ {NoHost}
  IN [h \in hs |->
        c.containers[SetMax({i \in 1..Len(c.containers) : c.containers[i].host = h})]]

BuildGroupHostIndex(c) ==
  LET hs == {c.groups[i].host : i \in 1..Len(c.groups)} \ {NoHost}
  IN [h \in hs |->
        c.groups[SetMax({i \in 1..Len(c.groups) : c.groups[i].host = h})]]

BuildContainerMap(c) ==
  [n \in NamesOf(c) |->
     c.containers[SetMax({i \in 1..Len(c.containers) : c.containers[i].name = n})]]

\* strings.LastIndex(host, ":") != -1  ->  host[:idx]
StripPort(h) == SubSeq(h, 1, Len(h) - 1)

HasPort(h) == Len(h) > 1

None == [name |-> "", host |-> NoHost, deps |-> <<>>, idle |-> 0]

NoGroup == [name |-> "", host |-> NoHost, containers |-> <<>>]

\* resolveConfig: exact host, host without port, then ?container=NAME over
\* cfg.Containers (first match); None stands for nil.
resolveConfigIn(hIdx, c, h, q) ==
  IF h \in DOMAIN hIdx THEN hIdx[h]
  ELSE IF HasPort(h) /\ StripPort(h) \in DOMAIN hIdx THEN hIdx[StripPort(h)]
  ELSE IF q # "" /\ \E i \in 1..Len(c.containers) : c.containers[i].name = q
       THEN c.containers[SetMin({i \in 1..Len(c.containers) : c.containers[i].name = q})]
  ELSE None

resolveGroupIn(gIdx, h) ==
  IF h \in DOMAIN gIdx THEN gIdx[h]
  ELSE IF HasPort(h) /\ StripPort(h) \in DOMAIN gIdx THEN gIdx[StripPort(h)]
  ELSE NoGroup

\* ------------------------------------------------------- TopologicalSort
\* DFS state: visited set, visiting set, order, err flag.
RECURSIVE visit(_, _, _)
RECURSIVE visitDeps(_, _, _, _)
visit(name, cm, st) ==
  IF st.err \/ name \in st.visited THEN st
  ELSE IF name \in st.visiting THEN [st EXCEPT !.err = TRUE]
  ELSE IF name \notin DOMAIN cm THEN [st EXCEPT !.err = TRUE]
  ELSE LET s1 == [st EXCEPT !.visiting = @ \cup {name}]
           s2 == visitDeps(cm[name].deps, 1, cm, s1)
       IN IF s2.err THEN s2
          ELSE [s2 EXCEPT !.visiting = @ \ {name},
                          !.visited = @ \cup {name},
                          !.order = Append(@, name)]

visitDeps(deps, i, cm, st) ==
  IF i > Len(deps) \/ st.err THEN st
  ELSE visitDeps(deps, i + 1, cm, visit(deps[i], cm, st))

\* a sort that returns the target alone
TopologicalSortTargetOnly(target, containers) ==
  [visited |-> {target}, visiting |-> {}, order |-> << target >>, err |-> FALSE]

\* Returns [err, order]; order ends with target.
TopologicalSort(target, containers) ==
  LET cm == BuildContainerMap([containers |-> containers, groups |-> <<>>])
      st0 == [visited |-> {}, visiting |-> {}, order |-> <<>>, err |-> FALSE]
  IN IF target \notin DOMAIN cm THEN [st0 EXCEPT !.err = TRUE]
     ELSE visit(target, cm, st0)

\* ---------------------------------------------------- catalog validation
AdminAuth(m, u, p, t) == [method |-> m, username |-> u, password |-> p, token |-> t]

Global(port, proxies, auth) ==
  [port |-> port, trustedProxies |-> proxies, adminAuth |-> auth]

\* a ContainerConfig with its target port
DCont(n, h, p, d) == [name |-> n, host |-> h, deps |-> d, idle |-> 0, targetPort |-> p]

\* the nil error
NoErr == [kind |-> "", ctr |-> "", ref |-> "", path |-> <<>>]

Err(kind, ctr, ref, path) == [kind |-> kind, ctr |-> ctr, ref |-> ref, path |-> path]

\* detectDependencyCycles: deps[c.Name] = c.DependsOn, a later entry of the
\* same name overwrites an earlier one; a name without entry has no deps
DepsOf(containers, name) ==
  LET is == {i \in 1..Len(containers) : containers[i].name = name}
  IN IF is = {} THEN <<>> ELSE containers[SetMax(is)].deps

\* detectDependencyCycles.visit: colours 0 unvisited, 1 visiting, 2 visited;
\* the error carries path and the re-entered name ("path -> name")
RECURSIVE cycleVisit(_, _, _, _)
RECURSIVE cycleVisitDeps(_, _, _, _, _)
cycleVisit(name, path, containers, st) ==
  IF st.err # NoErr THEN st
  ELSE IF name \in st.visited THEN st
  ELSE IF name \in st.visiting
  THEN [st EXCEPT !.err = Err("cycle", "", name, path)]
  ELSE LET s1 == [st EXCEPT !.visiting = @ \cup {name}]
           s2 == cycleVisitDeps(DepsOf(containers, name), 1,
                                Append(path, name), containers, s1)
       IN IF s2.err # NoErr THEN s2
          ELSE [s2 EXCEPT !.visiting = @ \ {name}, !.visited = @ \cup {name}]

cycleVisitDeps(deps, j, path, containers, st) ==
  IF j > Len(deps) \/ st.err # NoErr THEN st
  ELSE cycleVisitDeps(deps, j + 1, path, containers,
                      cycleVisit(deps[j], path, containers, st))

RECURSIVE cycleRoots(_, _, _)
cycleRoots(containers, i, st) ==
  IF i > Len(containers) \/ st.err # NoErr THEN st
  ELSE cycleRoots(containers, i + 1,
                  cycleVisit(containers[i].name, <<>>, containers, st))

\* a cycle check that finds nothing
detectDependencyCyclesNever(containers) == NoErr

detectDependencyCycles(containers) ==
  cycleRoots(containers, 1, [visited |-> {}, visiting |-> {}, err |-> NoErr]).err

\* Validate: the admin_auth switch
validateAuth(a) ==
  IF a.method \in {"", "none"} THEN NoErr
  ELSE IF a.method = "basic"
  THEN IF a.username = "" \/ a.password = ""
       THEN Err("basic-credentials", "", "", <<>>) ELSE NoErr
  ELSE IF a.method = "bearer"
  THEN IF a.token = "" THEN Err("bearer-token", "", "", <<>>) ELSE NoErr
  ELSE Err("unknown-method", "", a.method, <<>>)

\* Validate: the depends_on loop of one container
RECURSIVE validateDeps(_, _, _)
validateDeps(ctr, j, nameSet) ==
  IF j > Len(ctr.deps) THEN NoErr
  ELSE IF ctr.deps[j] \notin nameSet
  THEN Err("unknown-dependency", ctr.name, ctr.deps[j], <<>>)
  ELSE IF ctr.deps[j] = ctr.name
  THEN Err("self-dependency", ctr.name, ctr.deps[j], <<>>)
  ELSE validateDeps(ctr, j + 1, nameSet)

\* Validate: the loop over c.Containers; returns the error and seenHosts
RECURSIVE validateContainers(_, _, _, _)
validateContainers(c, i, seenNames, seenHosts) ==
  IF i > Len(c.containers) THEN [err |-> NoErr, seenHosts |-> seenHosts]
  ELSE
    LET ctr == c.containers[i]
        groupMembers == UNION {Range(c.groups[g].containers) : g \in 1..Len(c.groups)}
        depTargets == UNION {Range(c.containers[k].deps) : k \in 1..Len(c.containers)}
        needsHost == ctr.name \notin groupMembers /\ ctr.name \notin depTargets
        depErr == validateDeps(ctr, 1, NamesOf(c))
        fail(e) == [err |-> e, seenHosts |-> seenHosts]
    IN IF ctr.name = "" THEN fail(Err("missing-name", "", "", <<>>))
       ELSE IF ctr.host = NoHost /\ needsHost
       THEN fail(Err("missing-host", ctr.name, "", <<>>))
       ELSE IF ctr.targetPort = ""
       THEN fail(Err("missing-target-port", ctr.name, "", <<>>))
       ELSE IF ctr.name \in seenNames
       THEN fail(Err("duplicate-name", ctr.name, "", <<>>))
       ELSE IF ctr.host # NoHost /\ ctr.host \in seenHosts
       THEN fail(Err("duplicate-host", ctr.name, "", <<>>))
       ELSE IF depErr # NoErr THEN fail(depErr)
       ELSE validateContainers(c, i + 1, seenNames \cup {ctr.name},
              IF ctr.host # NoHost THEN seenHosts \cup {ctr.host} ELSE seenHosts)

\* a group check that accepts every group
validateGroupsNone(c, i, seenGroupNames, seenHosts) == NoErr

\* Validate: the loop over c.Groups
RECURSIVE validateGroups(_, _, _, _)
validateGroups(c, i, seenGroupNames, seenHosts) ==
  IF i > Len(c.groups) THEN NoErr
  ELSE
    LET g == c.groups[i]
    IN IF g.name = "" THEN Err("group-missing-name", "", "", <<>>)
       ELSE IF g.host = NoHost THEN Err("group-missing-host", g.name, "", <<>>)
       ELSE IF Len(g.containers) = 0 THEN Err("group-empty", g.name, "", <<>>)
       ELSE IF g.name \in seenGroupNames THEN Err("duplicate-group", g.name, "", <<>>)
       ELSE IF g.host \in seenHosts THEN Err("group-host-conflict", g.name, "", <<>>)
       ELSE IF \E k \in 1..Len(g.containers) : g.containers[k] \notin NamesOf(c)
       THEN Err("group-unknown-member", g.name, "", <<>>)
       ELSE validateGroups(c, i + 1, seenGroupNames \cup {g.name},
                           seenHosts \cup {g.host})

\* GatewayConfig.Validate: the first error found, NoErr for nil
Validate(c) ==
  IF c.gateway.port = "" THEN Err("missing-port", "", "", <<>>)
  ELSE IF validateAuth(c.gateway.adminAuth) # NoErr
  THEN validateAuth(c.gateway.adminAuth)
  ELSE LET cs == validateContainers(c, 1, {}, {})
       IN IF cs.err # NoErr THEN cs.err
          ELSE IF validateGroups(c, 1, {}, cs.seenHosts) # NoErr
          THEN validateGroups(c, 1, {}, cs.seenHosts)
          ELSE detectDependencyCycles(c.containers)

\* ------------------------------------------------------------ mergeConfigs
\* the loop over the dynamic containers: seenHosts, seenNames, result
RECURSIVE mergeDynamic(_, _, _, _, _)
mergeDynamic(dynamic, i, seenHosts, seenNames, out) ==
  IF i > Len(dynamic) THEN out
  ELSE LET dc == dynamic[i]
       IN IF dc.host \in seenHosts \/ dc.name \in seenNames
          THEN mergeDynamic(dynamic, i + 1, seenHosts, seenNames, out)
          ELSE mergeDynamic(dynamic, i + 1, seenHosts \cup {dc.host},
                            seenNames \cup {dc.name}, Append(out, dc))

\* a merge that appends every dynamic container, colliding or not
mergeConfigsAll(static, dynamic) ==
  [gateway |-> static.gateway,
   containers |-> static.containers \o dynamic,
   groups |-> <<>>]

\* DiscoveryManager.mergeConfigs: Gateway and the containers are filled in,
\* the Groups field of the merged value is left at its zero value
mergeConfigs(static, dynamic) ==
  [gateway |-> static.gateway,
   containers |-> mergeDynamic(dynamic, 1,
                    {static.containers[i].host : i \in 1..Len(static.containers)},
                    NamesOf(static), static.containers),
   groups |-> <<>>]

\* parseTrustedProxies: the entries net.ParseCIDR accepts, in order
ValidCIDRs == {"10.0.0.0/8", "192.168.0.0/16"}

RECURSIVE parseTrustedProxies(_)
parseTrustedProxies(proxies) ==
  IF Len(proxies) = 0 THEN <<>>
  ELSE IF proxies[1] \in ValidCIDRs
  THEN << proxies[1] >> \o parseTrustedProxies(Tail(proxies))
  ELSE parseTrustedProxies(Tail(proxies))

\* ---------------------------------------------------------------- clientIP
\* An address is a string; net.ParseIP gives its octets, <<>> for nil.
Octets ==
  [ip \in {"10.0.0.1", "8.8.8.8", "192.168.1.5", "10.0.0.7", "203.0.113.9"} |->
     CASE ip = "10.0.0.1" -> << 10, 0, 0, 1 >>
       [] ip = "8.8.8.8" -> << 8, 8, 8, 8 >>
       [] ip = "192.168.1.5" -> << 192, 168, 1, 5 >>
       [] ip = "10.0.0.7" -> << 10, 0, 0, 7 >>
       [] ip = "203.0.113.9" -> << 203, 0, 113, 9 >>]

ParseIP(ip) == IF ip \in DOMAIN Octets THEN Octets[ip] ELSE <<>>

\* the network prefix of an IPNet, in whole octets
CidrPrefix(c) == IF c = "10.0.0.0/8" THEN << 10 >> ELSE << 192, 168 >>

\* IPNet.Contains
Contains(c, octets) ==
  \A i \in 1..Len(CidrPrefix(c)) : octets[i] = CidrPrefix(c)[i]

isTrustedProxyAlways(ip, cidrs) == TRUE

isTrustedProxy(ip, cidrs) ==
  LET parsed == ParseIP(ip)
  IN IF parsed = <<>> THEN FALSE
     ELSE \E i \in 1..Len(cidrs) : Contains(cidrs[i], parsed)

\* net.SplitHostPort on "host:port" (host and port as two segments)
SplitHost(addr) == IF Len(addr) = 2 THEN addr[1] ELSE ""

\* strings.TrimSpace on a text given as its runs of spaces and of
\* non-space characters
RECURSIVE TrimLeft(_)
TrimLeft(t) == IF Len(t) > 0 /\ t[1] = " " THEN TrimLeft(Tail(t)) ELSE t

RECURSIVE TrimRight(_)
TrimRight(t) ==
  IF Len(t) > 0 /\ t[Len(t)] = " " THEN TrimRight(SubSeq(t, 1, Len(t) - 1)) ELSE t

TrimSpace(t) == TrimRight(TrimLeft(t))

\* setForwardedHeaders on a request: remote (host, port), tls (r.TLS # nil),
\* host, and the headers xff (the chain, <<>> = absent), realIP, proto,
\* fwdHost ("" = absent)
setForwardedHeaders(r) ==
  LET ip == SplitHost(r.remote)
  IN [r EXCEPT !.xff = IF r.xff # <<>> THEN Append(r.xff, ip) ELSE << ip >>,
               !.realIP = IF r.realIP = "" THEN ip ELSE r.realIP,
               !.proto = IF r.tls THEN "https" ELSE "http",
               !.fwdHost = r.host]

\* Server.clientIP. The X-Forwarded-For value is the sequence of its
\* comma-separated parts (<<>> for an empty value), so that
\* strings.SplitN(xff, ",", 2)[0] is xff[1]; the result is a text.
clientIP(remoteAddr, xff, cidrs) ==
  LET directIP == SplitHost(remoteAddr)
  IN IF Len(cidrs) > 0 /\ isTrustedProxy(directIP, cidrs) /\ xff # <<>>
     THEN TrimSpace(xff[1])
     ELSE << directIP >>

\* ------------------------------------------------------------------ state
VARIABLES
  srv,          \* Server: cfg, hostIndex, groupIndex, containerMap
  docker,       \* runtime: container name -> status string
  startStates,  \* ContainerManager.startStates (status "unknown" = absent)
  lastSeen,     \* ContainerManager.lastSeen (-1 = absent)
  locks,        \* ContainerManager.locks: name -> mutex id (0 = absent)
  mutexes,      \* the allocated sync.Mutex values: id -> holder (0 = free)
  now,          \* wall clock
  req,          \* inbound requests: kind, target, resp; cold = every workload
                \* of the orchestrator's plan was stopped when it was launched
  orch,         \* detached orchestrator goroutine of each request
  log,          \* per orchestrator: runtime start calls / probe passes
  batchOf,      \* per name: requests of the current concurrent wake batch
  sw,           \* idle watcher goroutine: pc, snapshot, now, idx
  stops,        \* record of the last StopContainer call of the watcher
  counters,     \* GroupRouter.counters (-1 = absent)
  pickLog,      \* per group: names returned by Pick, in order
  configMu,     \* Server.configMu: writer flag and reader set
  reload,       \* ReloadConfig in progress: pc and the new config
  look,         \* dispatching request threads of the reload scenario
  nReloads,
  dm,           \* DiscoveryManager: staticConfig, lastConfig; gen counts
                \* the UpdateStaticConfig calls made so far
  pass,         \* the goroutines that run runDiscovery, each with its locals
  sent,         \* the views handed to onConfigChange, in call order
  passLog,      \* the finished passes, in the order of their decision
  bound,        \* what Server.Start bound: listen address, auth settings
  trustedCIDRs, \* Server.trustedCIDRs
  pure,         \* argument and result of a pure function under test
  inspect,      \* per request: what the handler's status query returned
  root,         \* main's root context: live, cancelled, or the process exited
  th,           \* per goroutine: position in its sequence of lock operations
  gl,           \* per lock: the writer ("" = none) and the readers holding it
  rl,           \* rateLimiter: mu (0 free, else the holder), lastSeen
  rlNow,        \* the clock read by time.Now / time.Since
  rlCall,       \* the goroutines inside rateLimiter.Allow
  rlLog,        \* the calls of Allow that returned, in order of return
  adm,          \* the last request to an internal endpoint and its answer
  bg            \* per dispatched request: what its handler captured and
                \* what its detached goroutine read afterwards

vars == << srv, docker, startStates, lastSeen, locks, mutexes, now, req, orch,
           log, batchOf, sw, stops, counters, pickLog, configMu, reload, look,
           nReloads, dm, pass, sent, passLog, bound, trustedCIDRs, pure, inspect,
           root, th, gl, rl, rlNow, rlCall, rlLog, adm, bg >>

lifeVars == << docker, startStates, lastSeen, locks, mutexes, now, req, orch,
               log, batchOf, sw, stops >>

pickVars == << counters, pickLog >>

reloadVars == << configMu, reload, look, nReloads >>

discVars == << dm, pass, sent, passLog, bound, trustedCIDRs, pure >>

\* what a request handler of the wake path leaves alone
quietVars == << root, th, gl, bg >>

wakeVars == << inspect, root, th, gl, bg >>

rateVars == << rl, rlNow, rlCall, rlLog, adm >>

Max2(x, y) == IF x > y THEN x ELSE y

Reqs == 1..Max2(MaxReq, Max2(MaxLockReq, MaxDepReq))

\* NewServer: all indices are built from the initial configuration.
NewServer(c) ==
  [cfg |-> c, hostIndex |-> BuildHostIndex(c),
   groupIndex |-> BuildGroupHostIndex(c), containerMap |-> BuildContainerMap(c)]

Unknown == [status |-> "unknown", err |-> ""]

\* setStartState
setStartState(ss, name, status, errMsg) ==
  [ss EXCEPT ![name] = [status |-> status, err |-> errMsg]]

\* GetStartState
GetStartState(name) == startStates[name].status

\* InitStartState
InitStartState(ss, name) == setStartState(ss, name, "starting", "")

\* RecordActivity
RecordActivity(ls, name) == [ls EXCEPT ![name] = now]

IdleOrch == [pc |-> "none", plan |-> <<>>, ti |-> 0, abortAll |-> TRUE, held |-> 0]

IdleReq == [kind |-> "none", target |-> "", resp |-> "none", cold |-> FALSE]

IdleSw == [pc |-> "wait", snapshot |-> [n \in AllNames |-> -1], now |-> 0, idx |-> 0]

NoStop == [name |-> "", fresh |-> FALSE, never |-> FALSE, idle |-> 0]

\* rate-limit keys: client IPs
RateKeys == {"10.0.0.7", "203.0.113.9"}

RateCallers == 1..MaxRateCallers

\* newRateLimiter(1 * time.Second), in clock steps of half a second
RateInterval == 2

IdleCall == [pc |-> "idle", ip |-> "", t |-> 0, ok |-> FALSE, stamp |-> -1]

\* an Authorization header: the scheme prefix, whether the rest is valid
\* base64, and the rest (decoded for Basic) as its ":"-separated segments
Authz(scheme, b64, text) == [scheme |-> scheme, b64 |-> b64, text |-> text]

NoAuthz == Authz("", TRUE, <<>>)

\* an Origin header: set or absent, and for a set one the scheme, whether
\* "://" occurs, the host:port segments after it, and the rest
Origin(set, scheme, sep, host, rest) ==
  [set |-> set, scheme |-> scheme, sep |-> sep, host |-> host, rest |-> rest]

NoOrigin == Origin(FALSE, "", FALSE, <<>>, "")

NoAdm == [pc |-> "idle", path |-> "", method |-> "", authz |-> NoAuthz,
          origin |-> NoOrigin, name |-> "", handler |-> "", code |-> "",
          wwwAuth |-> FALSE]

\* newRateLimiter: an empty lastSeen map (-1 = no entry)
\* ------------------------------------------------- locks and external calls
\* the mutexes of the program: ContainerManager.mu, Server.configMu,
\* rateLimiter.mu, GroupRouter.mu, DiscoveryManager.mu; "start" is the
\* per-workload mutex of ContainerManager.locks
GlobalLocks == {"mu", "configMu", "rl.mu", "gr.mu", "dm.mu"}

Op(k, a) == [k |-> k, a |-> a]

\* a critical section of in-memory work under a mutex
critical(l) == << Op("lock", l), Op("mem", l), Op("unlock", l) >>

\* the same under the read side of configMu
reading(l) == << Op("rlock", l), Op("mem", l), Op("runlock", l) >>

\* a runtime call, a probe, proxy I/O or the reload callback
ext(what) == << Op("ext", what) >>

\* EnsureRunning and probeTCPReady, manager.go 179-259, on the path that
\* starts the container
EnsureRunningOps ==
  ext("GetContainerStatus") \o critical("mu") \o << Op("lock", "start") >>
    \o ext("GetContainerStatus") \o critical("mu") \o ext("StartContainer")
    \o ext("GetContainerStatus") \o ext("GetContainerAddress") \o ext("ProbeTCP")
    \o critical("mu") \o << Op("unlock", "start") >>

\* handleRequest for a running workload, server.go 207-262 and 404-428:
\* resolveGroup, resolveConfig, status, RecordActivity, proxyRequest
proxyOps ==
  reading("configMu") \o reading("configMu") \o ext("GetContainerStatus")
    \o critical("mu") \o ext("GetContainerAddress") \o ext("proxy")

\* handleRequest for a stopped workload and its goroutine, server.go 207-280
wakeOps ==
  reading("configMu") \o reading("configMu") \o ext("GetContainerStatus")
    \o critical("mu") \o reading("configMu") \o EnsureRunningOps

\* handleGroupRequest and its goroutine, server.go 207-211 and 288-333
groupOps ==
  reading("configMu") \o critical("gr.mu") \o reading("configMu")
    \o ext("GetContainerStatus") \o critical("mu") \o reading("configMu")
    \o EnsureRunningOps

checkIdleOpsHolding ==
  << Op("lock", "mu"), Op("mem", "mu") >> \o ext("GetContainerStatus")
    \o ext("StopContainer") \o << Op("mem", "mu"), Op("unlock", "mu") >>

\* checkIdle, manager.go 280-314: snapshot, status, stop, delete
checkIdleOps ==
  critical("mu") \o ext("GetContainerStatus") \o ext("StopContainer")
    \o critical("mu")

\* runDiscovery with mergeConfigs and the callback ReloadConfig
runDiscoveryOps ==
  ext("DiscoverLabeledContainers") \o critical("dm.mu") \o critical("dm.mu")
    \o ext("onConfigChange") \o critical("configMu")

\* UpdateStaticConfig
sighupOps == critical("dm.mu") \o runDiscoveryOps

\* handleHealth, server.go 346-371: clientIP, Allow, resolveConfig,
\* GetStartState, status
healthOps ==
  reading("configMu") \o critical("rl.mu") \o reading("configMu")
    \o critical("mu") \o ext("GetContainerStatus")

\* the cleanup goroutine of the rate limiter
evictOps == critical("rl.mu")

Programs ==
  [proxy |-> proxyOps, wake |-> wakeOps, group |-> groupOps,
   sweeper |-> checkIdleOps, ticker |-> runDiscoveryOps, sighup |-> sighupOps,
   health |-> healthOps, evict |-> evictOps]

Threads == DOMAIN Programs

\* a request that has not arrived
IdleBg == [pc |-> "idle", kind |-> "", h |-> <<>>, q |-> "", cfg |-> <<>>,
           from |-> <<>>, picked |-> "", all |-> <<>>, map |-> <<>>, plan |-> <<>>]

RateInit ==
  /\ rl = [mu |-> 0, lastSeen |-> [k \in RateKeys |-> -1]]
  /\ rlNow = 0
  /\ rlCall = [c \in RateCallers |-> IdleCall]
  /\ rlLog = <<>>
  /\ adm = NoAdm

LifeInit ==
  /\ docker \in [AllNames -> {"exited", "running"}]
  /\ \A n \in AllNames \ NamesOf(srv.cfg) : docker[n] = "exited"
  /\ startStates = [n \in AllNames |-> Unknown]
  /\ lastSeen = [n \in AllNames |-> -1]
  /\ locks = [n \in AllNames |-> 0]
  /\ mutexes = <<>>
  /\ now = 0
  /\ req = [r \in Reqs |-> IdleReq]
  /\ orch = [r \in Reqs |-> IdleOrch]
  /\ log = [r \in Reqs |-> <<>>]
  /\ batchOf = [n \in AllNames |-> {}]
  /\ sw = IdleSw
  /\ stops = NoStop
  /\ inspect = [r \in Reqs |-> ""]
  /\ root = "live"
  /\ th = [t \in Threads |-> 0]
  /\ gl = [l \in GlobalLocks \cup {"start"} |-> [w |-> "", r |-> {}]]
  /\ bg = [r \in 1..MaxSnapReq |-> IdleBg]
  /\ RateInit

PickInit ==
  /\ counters = [g \in {"single", "triple", "empty", "pair", "g"} |-> -1]
  /\ pickLog = [g \in {"single", "triple", "empty", "pair"} |-> <<>>]

\* what one dispatching request read: each index value is paired with the
\* configuration that was current at the moment of the read
NoSeen == [h |-> <<>>, q |-> "", group |-> <<>>, host |-> <<>>, cfg |-> <<>>,
           map |-> <<>>, race |-> <<>>]

ReloadInit ==
  /\ configMu = [writer |-> FALSE, readers |-> {}]
  /\ reload = [pc |-> "idle", newCfg |-> CatSingle]
  /\ look = [t \in 1..MaxLookups |-> [pc |-> "idle", seen |-> NoSeen]]
  /\ nReloads = 0

\* a nil *GatewayConfig
NilCfg == [nil |-> TRUE]

\* Server.Start has not run yet
Unbound == [addr |-> "", method |-> "", auth |-> AdminAuth("", "", "", "")]

Passers == {"tick", "hup"}

\* a goroutine outside runDiscovery; n counts the passes it has begun, out is
\* the outcome of its latest pass
IdlePass == [pc |-> "idle", n |-> 0, dyn |-> <<>>, static |-> NilCfg,
             merged |-> NilCfg, out |-> "none"]

\* no pure function under test
NoPure == [fn |-> "none", arg |-> <<>>, res |-> <<>>, done |-> FALSE]

\* NewServer: trustedCIDRs of the initial configuration
TrustedOf(c) ==
  IF "gateway" \in DOMAIN c THEN parseTrustedProxies(c.gateway.trustedProxies)
  ELSE <<>>

\* NewDiscoveryManager: lastConfig is nil
DiscIdle ==
  /\ dm = [staticConfig |-> srv.cfg, lastConfig |-> NilCfg, gen |-> 0]
  /\ pass = [t \in Passers |-> IdlePass]
  /\ sent = <<>>
  /\ passLog = <<>>
  /\ bound = Unbound
  /\ trustedCIDRs = TrustedOf(srv.cfg)

DiscInit ==
  /\ DiscIdle
  /\ pure = NoPure

\* one workload with an idle timeout: concurrent requests and the idle watcher
Init ==
  /\ srv = NewServer(CatSingle)
  /\ LifeInit
  /\ PickInit
  /\ ReloadInit
  /\ DiscInit

\* two independent workloads: concurrent wake actions
InitLock ==
  /\ srv = NewServer(CatPair)
  /\ LifeInit
  /\ PickInit
  /\ ReloadInit
  /\ DiscInit

\* a dependency chain, and a group whose member has a dependency
InitDeps ==
  /\ srv \in {NewServer(CatChain), NewServer(CatGroup)}
  /\ LifeInit
  /\ PickInit
  /\ ReloadInit
  /\ DiscInit

\* ------------------------------------------------------- request handling
HostInputs == {<<"w.localhost">>, <<"a.localhost">>, <<"b.localhost", "8080">>,
               <<"app.localhost">>, <<"g.localhost">>, <<"nowhere.localhost">>}

QueryInputs == {"", "db"}

Active(r) == orch[r].pc \notin {"none", "done"}

PcOfTask(t) == IF t.skip THEN "depcheck" ELSE "check1"

Task(n, s, c) == [name |-> n, skip |-> s, chain |-> c]

\* EnsureDepsRunning(name, catalog): topo(name); every name but the target is
\* skipped when already running, else Ensure-running; the target comes last;
\* the first failure aborts the chain.
EnsureDepsRunningTasks(target, containers, chain) ==
  LET t == TopologicalSort(target, containers)
  IN IF t.err THEN <<>>
     ELSE [i \in 1..Len(t.order) |-> Task(t.order[i], i < Len(t.order), chain)]

RECURSIVE EnsureGroupRunningTasks(_, _, _)
\* EnsureGroupRunning(group, catalog): every member with its dependencies; a
\* failing member does not abort the others.
EnsureGroupRunningTasks(members, containers, i) ==
  IF i > Len(members) THEN <<>>
  ELSE EnsureDepsRunningTasks(members[i], containers, i)
         \o EnsureGroupRunningTasks(members, containers, i + 1)

Spawn(plan, abortAll) ==
  [pc |-> IF plan = <<>> THEN "done" ELSE PcOfTask(plan[1]),
   plan |-> plan, ti |-> 1, abortAll |-> abortAll, held |-> 0]

JoinBatch(r, name) ==
  IF docker[name] = "running" THEN batchOf
  ELSE [batchOf EXCEPT ![name] =
          IF \E x \in @ : Active(x) THEN @ \cup {r} ELSE {r}]

NextReq(r) == req[r].kind = "none" /\ \A x \in Reqs : x < r => req[x].kind # "none"

\* the goroutine of handleRequest for a container that is not running
WakePlan(c) ==
  IF Len(c.deps) > 0
  THEN LET d == EnsureDepsRunningTasks(c.name, srv.cfg.containers, 1)
       IN IF d = <<>> THEN <<>> ELSE d \o << Task(c.name, FALSE, 2) >>
  ELSE << Task(c.name, FALSE, 1) >>

PlanNames(plan) == {plan[i].name : i \in 1..Len(plan)}

IsCold(plan) == \A n \in PlanNames(plan) : docker[n] = "exited"

Respond(r, kind, name, resp) ==
  req' = [req EXCEPT ![r] = [kind |-> kind, target |-> name, resp |-> resp,
                             cold |-> FALSE]]

\* the response of a request that launches an orchestrator
RespondSpawn(r, kind, name, resp, plan) ==
  req' = [req EXCEPT ![r] = [kind |-> kind, target |-> name, resp |-> resp,
                             cold |-> IsCold(plan)]]

\* handleRequest once the Host resolved to a container c (server.go 219-283)
handleContainer(r, c) ==
  \E statusErr \in BOOLEAN, depErrs \in SUBSET Range(c.deps), addrErr \in BOOLEAN :
    LET depDown == {i \in 1..Len(c.deps) :
                      c.deps[i] \in depErrs \/ docker[c.deps[i]] # "running"}
    IN
    IF statusErr
    THEN /\ depErrs = {} /\ ~addrErr
         /\ Respond(r, "direct", c.name, "error")
         /\ UNCHANGED << startStates, lastSeen, orch, batchOf >>
    ELSE IF docker[c.name] = "running"
    THEN IF depDown # {}
         THEN /\ ~addrErr
              /\ depErrs \subseteq {c.deps[i] : i \in 1..SetMin(depDown)}
              /\ startStates' = InitStartState(startStates, c.name)
              /\ orch' = [orch EXCEPT ![r] =
                   Spawn(EnsureDepsRunningTasks(c.name, srv.cfg.containers, 1), TRUE)]
              /\ RespondSpawn(r, "direct", c.name, "holding",
                              EnsureDepsRunningTasks(c.name, srv.cfg.containers, 1))
              /\ UNCHANGED << lastSeen, batchOf >>
         ELSE /\ depErrs = {}
              /\ lastSeen' = RecordActivity(lastSeen, c.name)
              /\ Respond(r, "direct", c.name, IF addrErr THEN "proxy-error" ELSE "proxy")
              /\ UNCHANGED << startStates, orch, batchOf >>
    ELSE /\ depErrs = {} /\ ~addrErr
         /\ startStates' = InitStartState(startStates, c.name)
         /\ orch' = [orch EXCEPT ![r] = Spawn(WakePlan(c), TRUE)]
         /\ batchOf' = JoinBatch(r, c.name)
         /\ RespondSpawn(r, "direct", c.name, "holding", WakePlan(c))
         /\ UNCHANGED lastSeen

counterKeyShared(g) == "g"

\* GroupRouter.Pick: gr.counters[group.Name]
counterKey(g) == g.name

\* GroupRouter.Pick: idx := counter.Add(1) - 1 (-1 = no counter yet).  The
\* counter is an atomic.Uint64; its wrap at 2^64 lies beyond every pick count
\* reached here.
PickIdx(cs, g) == IF cs[counterKey(g)] = -1 THEN 0 ELSE cs[counterKey(g)]

PickName(cs, g) ==
  IF Len(g.containers) = 0 THEN ""
  ELSE IF Len(g.containers) = 1 THEN g.containers[1]
  ELSE g.containers[(PickIdx(cs, g) % Len(g.containers)) + 1]

PickCounters(cs, g) ==
  IF Len(g.containers) <= 1 THEN cs
  ELSE [cs EXCEPT ![counterKey(g)] = PickIdx(cs, g) + 1]

RECURSIVE InitAll(_, _, _)
InitAll(ss, members, i) ==
  IF i > Len(members) THEN ss
  ELSE InitAll(InitStartState(ss, members[i]), members, i + 1)

\* handleGroupRequest (server.go 287-338)
handleGroupRequest(r, g) ==
  LET picked == PickName(counters, g)
  IN /\ counters' = PickCounters(counters, g)
     /\ IF picked \notin DOMAIN srv.containerMap
        THEN /\ Respond(r, "group", picked, "error500")
             /\ UNCHANGED << startStates, lastSeen, orch >>
        ELSE \E statusErr \in BOOLEAN, addrErr \in BOOLEAN :
          IF statusErr \/ docker[picked] # "running"
          THEN /\ ~addrErr
               /\ startStates' = InitAll(startStates, g.containers, 1)
               /\ orch' = [orch EXCEPT ![r] =
                    Spawn(EnsureGroupRunningTasks(g.containers, srv.cfg.containers, 1), FALSE)]
               /\ RespondSpawn(r, "group", picked, "holding",
                    EnsureGroupRunningTasks(g.containers, srv.cfg.containers, 1))
               /\ UNCHANGED lastSeen
          ELSE /\ lastSeen' = RecordActivity(lastSeen, picked)
               /\ Respond(r, "group", picked, IF addrErr THEN "proxy-error" ELSE "proxy")
               /\ UNCHANGED << startStates, orch >>
     /\ UNCHANGED batchOf

\* handleRequest (server.go 201-283); internal paths are served elsewhere
handleRequest(r, h, q) ==
  /\ NextReq(r)
  /\ LET g == resolveGroupIn(srv.groupIndex, h)
         c == resolveConfigIn(srv.hostIndex, srv.cfg, h, q)
     IN IF g # NoGroup THEN handleGroupRequest(r, g)
        ELSE IF c = None
        THEN /\ Respond(r, "direct", "", "404")
             /\ UNCHANGED << startStates, lastSeen, orch, batchOf, counters >>
        ELSE handleContainer(r, c) /\ UNCHANGED counters
  /\ UNCHANGED << srv, docker, locks, mutexes, now, log, sw, stops, pickLog >>
  /\ UNCHANGED reloadVars /\ UNCHANGED discVars /\ UNCHANGED wakeVars /\ UNCHANGED rateVars

\* handleStatusWake (server.go 758-803), after method/origin/rate checks
handleStatusWake(r, name) ==
  /\ NextReq(r)
  /\ IF name \in NamesOf(srv.cfg)
     THEN /\ startStates' = InitStartState(startStates, name)
          /\ orch' = [orch EXCEPT ![r] = Spawn(<< Task(name, FALSE, 1) >>, TRUE)]
          /\ batchOf' = JoinBatch(r, name)
          /\ RespondSpawn(r, "wake", name, "ok", << Task(name, FALSE, 1) >>)
     ELSE /\ Respond(r, "wake", "", "400")
          /\ UNCHANGED << startStates, orch, batchOf >>
  /\ UNCHANGED << srv, docker, lastSeen, locks, mutexes, now, log, sw, stops >>
  /\ UNCHANGED pickVars
  /\ UNCHANGED reloadVars /\ UNCHANGED discVars /\ UNCHANGED wakeVars /\ UNCHANGED rateVars

\* ------------------------------------------------ EnsureRunning, stepwise
CurTask(r) == orch[r].plan[orch[r].ti]

AdvanceOnward(o, failed) ==
  [o EXCEPT !.ti = o.ti + 1, !.held = 0,
            !.pc = IF o.ti + 1 > Len(o.plan) THEN "done"
                   ELSE PcOfTask(o.plan[o.ti + 1])]

\* leave EnsureRunning for the current task: next task, next chain or return
Advance(o, failed) ==
  LET n == Len(o.plan)
      k == o.plan[o.ti].chain
      nxt == IF ~failed THEN o.ti + 1
             ELSE IF o.abortAll THEN n + 1
             ELSE SetMin({j \in (o.ti + 1)..(n + 1) :
                            j = n + 1 \/ o.plan[j].chain # k})
  IN [o EXCEPT !.ti = nxt, !.held = 0,
               !.pc = IF nxt > n THEN "done" ELSE PcOfTask(o.plan[nxt])]

\* defer lock.Unlock()
Unlock(r) ==
  IF orch[r].held # 0 THEN [mutexes EXCEPT ![orch[r].held] = 0] ELSE mutexes

FailRetry(r, msg) ==
  /\ startStates' = setStartState(startStates, CurTask(r).name, "failed", msg)
  /\ mutexes' = mutexes
  /\ orch' = [orch EXCEPT ![r].pc = "start"]

Fail(r, msg) ==
  /\ startStates' = setStartState(startStates, CurTask(r).name, "failed", msg)
  /\ mutexes' = Unlock(r)
  /\ orch' = [orch EXCEPT ![r] = Advance(@, TRUE)]

OrchFrame == UNCHANGED << srv, lastSeen, now, req, batchOf, sw, stops >>
               /\ UNCHANGED pickVars /\ UNCHANGED reloadVars /\ UNCHANGED discVars /\ UNCHANGED wakeVars /\ UNCHANGED rateVars

\* EnsureDepsRunning: a dependency that is already running is skipped
DepCheck(r) ==
  /\ orch[r].pc = "depcheck"
  /\ \E statusErr \in BOOLEAN :
       IF ~statusErr /\ docker[CurTask(r).name] = "running"
       THEN orch' = [orch EXCEPT ![r] = Advance(@, FALSE)]
       ELSE orch' = [orch EXCEPT ![r].pc = "check1"]
  /\ UNCHANGED << docker, startStates, locks, mutexes, log >>
  /\ OrchFrame

\* manager.go 181-189
Check1(r) ==
  /\ orch[r].pc = "check1"
  /\ \E statusErr \in BOOLEAN :
       IF statusErr
       THEN /\ Fail(r, "inspect error")
            /\ log' = [log EXCEPT ![r] = Append(@, << "inspecterr", CurTask(r).name >>)]
       ELSE /\ orch' = [orch EXCEPT ![r].pc =
                  IF docker[CurTask(r).name] = "running" THEN "probe" ELSE "lock"]
            /\ UNCHANGED << startStates, mutexes, log >>
  /\ UNCHANGED << docker, locks >>
  /\ OrchFrame

lockExistsNever(lk, name) == FALSE

\* getLock: _, ok := m.locks[containerName]
lockExists(lk, name) == lk[name] # 0

\* manager.go 192-193: getLock, then lock.Lock() (blocks while held)
Lock(r) ==
  /\ orch[r].pc = "lock"
  /\ LET name == CurTask(r).name
         ok == lockExists(locks, name)
         id == IF ok THEN locks[name] ELSE Len(mutexes) + 1
     IN /\ ok => mutexes[id] = 0
        /\ locks' = [locks EXCEPT ![name] = id]
        /\ mutexes' = IF ok THEN [mutexes EXCEPT ![id] = r] ELSE Append(mutexes, r)
        /\ orch' = [orch EXCEPT ![r].pc = "check2", ![r].held = id]
  /\ UNCHANGED << docker, startStates, log >>
  /\ OrchFrame

\* manager.go 197-207: double-check under the lock; a container that is not
\* running is marked starting
Check2(r) ==
  /\ orch[r].pc = "check2"
  /\ \E statusErr \in BOOLEAN :
       IF statusErr
       THEN /\ Fail(r, "inspect error")
            /\ log' = [log EXCEPT ![r] = Append(@, << "inspecterr", CurTask(r).name >>)]
       ELSE IF docker[CurTask(r).name] = "running"
       THEN /\ orch' = [orch EXCEPT ![r].pc = "probe"]
            /\ UNCHANGED << startStates, mutexes, log >>
       ELSE /\ startStates' = setStartState(startStates, CurTask(r).name, "starting", "")
            /\ orch' = [orch EXCEPT ![r].pc = "start"]
            /\ UNCHANGED << mutexes, log >>
  /\ UNCHANGED << docker, locks >>
  /\ OrchFrame

\* manager.go 208-212: StartContainer; the runtime leaves the container
\* created (not up yet), running, or exited at once; starting a container
\* that is up leaves it up
Start(r) ==
  /\ orch[r].pc = "start"
  /\ log' = [log EXCEPT ![r] = Append(@, << "start", CurTask(r).name >>)]
  /\ \E out \in {"error", "created", "running", "exited"} :
       /\ docker[CurTask(r).name] = "running" => out \in {"error", "running"}
       /\ IF out = "error"
          THEN /\ Fail(r, "docker start failed")
               /\ UNCHANGED docker
          ELSE /\ docker' = [docker EXCEPT ![CurTask(r).name] = out]
               /\ orch' = [orch EXCEPT ![r].pc = "poll"]
               /\ UNCHANGED << startStates, mutexes >>
  /\ UNCHANGED locks
  /\ OrchFrame

\* manager.go 221-242: one turn of the select; an inspect error continues
Poll(r) ==
  /\ orch[r].pc = "poll"
  /\ \E timeout \in BOOLEAN :
       IF timeout THEN Fail(r, "start timeout")
       ELSE LET st == docker[CurTask(r).name]
            IN IF st = "running"
               THEN /\ orch' = [orch EXCEPT ![r].pc = "probe"]
                    /\ UNCHANGED << startStates, mutexes >>
               ELSE /\ st \in {"exited", "dead"}
                    /\ Fail(r, "container exited unexpectedly")
  /\ UNCHANGED << docker, locks, log >>
  /\ OrchFrame

\* probeTCPReady, manager.go 246-260: GetContainerAddress, then ProbeTCP until
\* success or ctx expiry; both need the container up
Probe(r) ==
  /\ orch[r].pc = "probe"
  /\ \E out \in {"ok", "noaddr", "noprobe"} :
       IF out = "ok"
       THEN /\ docker[CurTask(r).name] = "running"
            /\ startStates' = setStartState(startStates, CurTask(r).name, "running", "")
            /\ log' = [log EXCEPT ![r] = Append(@, << "ready", CurTask(r).name >>)]
            /\ mutexes' = Unlock(r)
            /\ orch' = [orch EXCEPT ![r] = Advance(@, FALSE)]
       ELSE /\ Fail(r, IF out = "noaddr" THEN "cannot resolve container address"
                       ELSE "app not responding")
            /\ UNCHANGED log
  /\ UNCHANGED << docker, locks >>
  /\ OrchFrame

\* ------------------------------------------------------------- the runtime
\* a created container comes up or exits
RuntimeSettle(n) ==
  /\ docker[n] = "created"
  /\ \E st \in {"running", "exited"} : docker' = [docker EXCEPT ![n] = st]
  /\ UNCHANGED << srv, startStates, lastSeen, locks, mutexes, now, req, orch,
                  log, batchOf, sw, stops >>
  /\ UNCHANGED pickVars /\ UNCHANGED reloadVars /\ UNCHANGED discVars /\ UNCHANGED wakeVars /\ UNCHANGED rateVars

Tick ==
  /\ now < MaxTime
  /\ now' = now + 1
  /\ UNCHANGED << srv, docker, startStates, lastSeen, locks, mutexes, req, orch,
                  log, batchOf, sw, stops >>
  /\ UNCHANGED pickVars /\ UNCHANGED reloadVars /\ UNCHANGED discVars /\ UNCHANGED wakeVars /\ UNCHANGED rateVars

\* ------------------------------------------------------------ idle watcher
SwFrame == UNCHANGED << srv, lastSeen, locks, mutexes, now, req, orch, log, batchOf >>
             /\ UNCHANGED pickVars /\ UNCHANGED reloadVars /\ UNCHANGED discVars /\ UNCHANGED wakeVars /\ UNCHANGED rateVars

\* checkIdle, manager.go 281-288: snapshot of lastSeen under mu, then time.Now()
SweepSnapshot ==
  /\ sw.pc = "wait"
  /\ sw' = [pc |-> "loop", snapshot |-> lastSeen, now |-> now, idx |-> 1]
  /\ UNCHANGED << docker, startStates, stops >>
  /\ SwFrame

\* the local guards of one loop iteration (manager.go 290-299)
idleDue(c, snap, t) ==
  /\ c.idle # 0
  /\ snap[c.name] # -1
  /\ ~(t - snap[c.name] < c.idle)

stillRunningAlways(statusErr, st) == TRUE

\* manager.go 300-303: if err != nil || status != "running" { continue }
stillRunning(statusErr, st) == ~statusErr /\ st = "running"

\* manager.go 309-311: delete(m.startStates, cfg.Name)
deleteStartState(ss, name) == [ss EXCEPT ![name] = Unknown]

\* manager.go 289-303: one iteration up to the status query
SweepCheck ==
  /\ sw.pc = "loop"
  /\ IF sw.idx > Len(srv.cfg.containers)
     THEN sw' = [sw EXCEPT !.pc = "wait"]
     ELSE LET c == srv.cfg.containers[sw.idx]
          IN \E statusErr \in BOOLEAN :
               IF idleDue(c, sw.snapshot, sw.now)
                    /\ stillRunning(statusErr, docker[c.name])
               THEN sw' = [sw EXCEPT !.pc = "stop"]
               ELSE sw' = [sw EXCEPT !.idx = @ + 1]
  /\ UNCHANGED << docker, startStates, stops >>
  /\ SwFrame

afterFailedStopEndsPass(s) == [s EXCEPT !.pc = "wait"]

\* manager.go 305-306: a failed stop is logged and the loop goes on
afterFailedStop(s) == [s EXCEPT !.pc = "loop", !.idx = @ + 1]

\* manager.go 305-307: StopContainer
SweepStop ==
  /\ sw.pc = "stop"
  /\ LET c == srv.cfg.containers[sw.idx]
     IN /\ stops' = [name |-> c.name,
                     fresh |-> lastSeen[c.name] > now - c.idle,
                     never |-> lastSeen[c.name] = -1, idle |-> c.idle]
        /\ \E ok \in BOOLEAN :
             IF ok
             THEN /\ docker' = [docker EXCEPT ![c.name] = "exited"]
                  /\ sw' = [sw EXCEPT !.pc = "delete"]
             ELSE /\ sw' = afterFailedStop(sw)
                  /\ UNCHANGED docker
  /\ UNCHANGED startStates
  /\ SwFrame

\* manager.go 308-311: delete(m.startStates, cfg.Name)
SweepDelete ==
  /\ sw.pc = "delete"
  /\ startStates' = deleteStartState(startStates, srv.cfg.containers[sw.idx].name)
  /\ sw' = [sw EXCEPT !.pc = "loop", !.idx = @ + 1]
  /\ UNCHANGED << docker, stops >>
  /\ SwFrame

\* ---------------------------------------------------------- specification
Steps(R) ==
  \/ \E r \in R : Check1(r)
  \/ \E r \in R : Lock(r)
  \/ \E r \in R : Check2(r)
  \/ \E r \in R : Start(r)
  \/ \E r \in R : Poll(r)
  \/ \E r \in R : Probe(r)
  \/ \E n \in AllNames : RuntimeSettle(n)

Next ==
  \/ \E r \in 1..MaxReq, h \in HostInputs, q \in QueryInputs : handleRequest(r, h, q)
  \/ Steps(1..MaxReq)
  \/ Tick
  \/ SweepSnapshot
  \/ SweepCheck
  \/ SweepStop
  \/ SweepDelete

Spec == Init /\ [][Next]_vars

\* two workloads with an idle timeout under one idle watcher, in a gateway
\* that has been serving: each workload may have been proxied to at time 0
InitSweep ==
  /\ srv = NewServer(CatIdlePair)
  /\ docker \in [AllNames -> {"exited", "running"}]
  /\ \A n \in AllNames \ NamesOf(srv.cfg) : docker[n] = "exited"
  /\ startStates = [n \in AllNames |-> Unknown]
  /\ lastSeen \in [AllNames -> {-1, 0}]
  /\ \A n \in AllNames \ NamesOf(srv.cfg) : lastSeen[n] = -1
  /\ locks = [n \in AllNames |-> 0]
  /\ mutexes = <<>>
  /\ now = 0
  /\ req = [r \in Reqs |-> IdleReq]
  /\ orch = [r \in Reqs |-> IdleOrch]
  /\ log = [r \in Reqs |-> <<>>]
  /\ batchOf = [n \in AllNames |-> {}]
  /\ sw = IdleSw
  /\ stops = NoStop
  /\ inspect = [r \in Reqs |-> ""]
  /\ root = "live"
  /\ th = [t \in Threads |-> 0]
  /\ gl = [l \in GlobalLocks \cup {"start"} |-> [w |-> "", r |-> {}]]
  /\ bg = [r \in 1..MaxSnapReq |-> IdleBg]
  /\ RateInit
  /\ PickInit
  /\ ReloadInit
  /\ DiscInit

NextSweep ==
  \/ \E r \in 1..MaxSweepReq, h \in HostInputs, q \in QueryInputs : handleRequest(r, h, q)
  \/ Steps(1..MaxSweepReq)
  \/ Tick
  \/ SweepSnapshot
  \/ SweepCheck
  \/ SweepStop
  \/ SweepDelete

SpecSweep == InitSweep /\ [][NextSweep]_vars

NextLock ==
  \/ \E r \in 1..MaxLockReq, n \in {"a", "b", "zz"} : handleStatusWake(r, n)
  \/ Steps(1..MaxLockReq)

SpecLock == InitLock /\ [][NextLock]_vars

NextDeps ==
  \/ \E r \in 1..MaxDepReq, h \in HostInputs, q \in QueryInputs : handleRequest(r, h, q)
  \/ \E r \in 1..MaxDepReq : DepCheck(r)
  \/ Steps(1..MaxDepReq)

SpecDeps == InitDeps /\ [][NextDeps]_vars

\* one dependency or group orchestration at a time, against the runtime
NextChain ==
  \/ \E r \in 1..MaxChainReq, h \in HostInputs, q \in QueryInputs : handleRequest(r, h, q)
  \/ \E r \in 1..MaxChainReq : DepCheck(r)
  \/ Steps(1..MaxChainReq)

SpecChain == InitDeps /\ [][NextChain]_vars

\* ------------------------------------------------------------ GroupRouter
PickGroups ==
  { Grp("single", <<"s.localhost">>, <<"a">>),
    Grp("triple", <<"t.localhost">>, <<"a", "b", "c">>),
    Grp("empty", <<"e.localhost">>, <<>>),
    Grp("pair", <<"p.localhost">>, <<"x", "y">>) }

RECURSIVE SumLen(_, _)
SumLen(f, S) ==
  IF S = {} THEN 0
  ELSE LET x == CHOOSE y \in S : TRUE IN Len(f[x]) + SumLen(f, S \ {x})

\* GroupRouter.Pick (group.go 100-119)
Pick(g) ==
  /\ SumLen(pickLog, DOMAIN pickLog) < MaxPicks
  /\ pickLog' = [pickLog EXCEPT ![g.name] = Append(@, PickName(counters, g))]
  /\ counters' = PickCounters(counters, g)
  /\ UNCHANGED srv
  /\ UNCHANGED lifeVars
  /\ UNCHANGED reloadVars /\ UNCHANGED discVars /\ UNCHANGED wakeVars /\ UNCHANGED rateVars

NextPick == \E g \in PickGroups : Pick(g)

SpecPick == Init /\ [][NextPick]_vars

\* ------------------------------------------------------------- hot reload
RCfgA ==
  [containers |-> << Cont("w", <<"w.localhost">>, <<>>, 0) >>,
   groups |-> << Grp("ga", <<"ga.localhost">>, <<"w">>) >>]

RCfgB ==
  [containers |-> << Cont("app", <<"app.localhost">>, <<"db">>, 0),
                     Cont("db", NoHost, <<>>, 0) >>,
   groups |-> << Grp("gb", <<"ga.localhost">>, <<"app">>) >>]

RCfgC ==
  [containers |-> << Cont("w", <<"w.localhost">>, <<>>, 1),
                     Cont("db", <<"db.localhost">>, <<>>, 0) >>,
   groups |-> << Grp("ga", <<"gc.localhost">>, <<"db">>) >>]

ReloadConfigs == {RCfgA, RCfgB, RCfgC}

InitReload ==
  /\ srv = NewServer(RCfgA)
  /\ LifeInit
  /\ PickInit
  /\ ReloadInit
  /\ DiscInit

RLockFreeAlways(mu) == TRUE

\* sync.RWMutex: RLock is granted while no writer holds the lock
RLockFree(mu) == ~mu.writer

\* sync.RWMutex: Lock is granted while nobody holds the lock
LockFree(mu) == ~mu.writer /\ mu.readers = {}

RFrame == UNCHANGED lifeVars /\ UNCHANGED pickVars /\ UNCHANGED discVars /\ UNCHANGED wakeVars /\ UNCHANGED rateVars

\* ReloadConfig (server.go 125-133), one assignment per step under configMu
ReloadLock(c) ==
  /\ reload.pc = "idle"
  /\ nReloads < MaxReloads
  /\ LockFree(configMu)
  /\ configMu' = [configMu EXCEPT !.writer = TRUE]
  /\ reload' = [pc |-> "cfg", newCfg |-> c]
  /\ nReloads' = nReloads + 1
  /\ UNCHANGED << srv, look >>
  /\ RFrame

ReloadCfg ==
  /\ reload.pc = "cfg"
  /\ srv' = [srv EXCEPT !.cfg = reload.newCfg]
  /\ reload' = [reload EXCEPT !.pc = "hostIndex"]
  /\ UNCHANGED << configMu, look, nReloads >>
  /\ RFrame

ReloadHostIndex ==
  /\ reload.pc = "hostIndex"
  /\ srv' = [srv EXCEPT !.hostIndex = BuildHostIndex(reload.newCfg)]
  /\ reload' = [reload EXCEPT !.pc = "groupIndex"]
  /\ UNCHANGED << configMu, look, nReloads >>
  /\ RFrame

ReloadGroupIndex ==
  /\ reload.pc = "groupIndex"
  /\ srv' = [srv EXCEPT !.groupIndex = BuildGroupHostIndex(reload.newCfg)]
  /\ reload' = [reload EXCEPT !.pc = "containerMap"]
  /\ UNCHANGED << configMu, look, nReloads >>
  /\ RFrame

\* last assignment and the deferred Unlock
ReloadContainerMap ==
  /\ reload.pc = "containerMap"
  /\ srv' = [srv EXCEPT !.containerMap = BuildContainerMap(reload.newCfg)]
  /\ reload' = [reload EXCEPT !.pc = "idle"]
  /\ configMu' = [configMu EXCEPT !.writer = FALSE]
  /\ UNCHANGED << look, nReloads >>
  /\ RFrame

Looks == 1..MaxLookups

LookHosts == {<<"ga.localhost">>, <<"w.localhost">>, <<"gc.localhost", "80">>, <<"x.localhost">>}

LookQueries == {"", "db"}

\* handleRequest -> resolveGroup (server.go 172-186): one read under RLock
LookGroup(t, h, q) ==
  /\ look[t].pc = "idle"
  /\ RLockFree(configMu)
  /\ look' = [look EXCEPT ![t] =
       [pc |-> IF resolveGroupIn(srv.groupIndex, h) # NoGroup THEN "map" ELSE "host",
        seen |-> [NoSeen EXCEPT !.h = h, !.q = q, !.group = << srv.groupIndex, srv.cfg >>]]]
  /\ UNCHANGED << srv, configMu, reload, nReloads >>
  /\ RFrame

\* resolveConfig (server.go 146-159): RLock, the hostIndex lookups
LookHost(t) ==
  /\ look[t].pc = "host"
  /\ RLockFree(configMu)
  /\ LET s == look[t].seen
         hit == resolveConfigIn(srv.hostIndex, [containers |-> <<>>], s.h, "") # None
     IN IF hit \/ s.q = ""
        THEN /\ look' = [look EXCEPT ![t].pc = "done",
                                     ![t].seen.host = << srv.hostIndex, srv.cfg >>]
             /\ UNCHANGED configMu
        ELSE /\ look' = [look EXCEPT ![t].pc = "cfg",
                                     ![t].seen.host = << srv.hostIndex, srv.cfg >>]
             /\ configMu' = [configMu EXCEPT !.readers = @ \cup {t}]
  /\ UNCHANGED << srv, reload, nReloads >>
  /\ RFrame

\* resolveConfig (server.go 160-168): the ?container= scan of s.cfg, RUnlock
LookCfg(t) ==
  /\ look[t].pc = "cfg"
  /\ look' = [look EXCEPT ![t].pc = "done", ![t].seen.cfg = << srv.cfg >>]
  /\ configMu' = [configMu EXCEPT !.readers = @ \ {t}]
  /\ UNCHANGED << srv, reload, nReloads >>
  /\ RFrame

\* handleGroupRequest (server.go 291-293): containerMap lookup under RLock
LookMap(t) ==
  /\ look[t].pc = "map"
  /\ RLockFree(configMu)
  /\ look' = [look EXCEPT ![t].pc = "race", ![t].seen.map = << srv.containerMap, srv.cfg >>]
  /\ UNCHANGED << srv, configMu, reload, nReloads >>
  /\ RFrame

\* handleGroupRequest goroutine (server.go 319): s.containerMap read without
\* the lock; the racing read yields the old or the new map
LookRace(t) ==
  /\ look[t].pc = "race"
  /\ look' = [look EXCEPT ![t].pc = "done", ![t].seen.race = << srv.containerMap >>]
  /\ UNCHANGED << srv, configMu, reload, nReloads >>
  /\ RFrame

NextReload ==
  \/ \E c \in ReloadConfigs : ReloadLock(c)
  \/ ReloadCfg
  \/ ReloadHostIndex
  \/ ReloadGroupIndex
  \/ ReloadContainerMap
  \/ \E t \in Looks, h \in LookHosts, q \in LookQueries : LookGroup(t, h, q)
  \/ \E t \in Looks : LookHost(t)
  \/ \E t \in Looks : LookCfg(t)
  \/ \E t \in Looks : LookMap(t)
  \/ \E t \in Looks : LookRace(t)

SpecReload == InitReload /\ [][NextReload]_vars

\* --------------------------------------------------------- auto-discovery
DGlobal0 == Global("8080", << "10.0.0.0/8" >>, AdminAuth("none", "", "", ""))

DGlobal1 == Global("9090", << "192.168.0.0/16", "bogus" >>,
                   AdminAuth("bearer", "", "", "tok"))

\* the static catalog the process starts with
DStatic0 ==
  [gateway |-> DGlobal0,
   containers |-> << DCont("s1", <<"s1.localhost">>, "80", <<>>) >>,
   groups |-> << Grp("g", <<"g.localhost">>, <<"s1">>) >>]

\* an edited config.yaml
DStatic1 ==
  [gateway |-> DGlobal1,
   containers |-> << DCont("s1", <<"s1.localhost">>, "80", <<>>),
                     DCont("s2", <<"s2.localhost">>, "80", <<>>) >>,
   groups |-> << Grp("g", <<"g.localhost">>, <<"s1", "s2">>) >>]

\* what LoadConfig can return on SIGHUP: catalogs that passed Validate
StaticInputs == {c \in {DStatic0, DStatic1} : Validate(c) = NoErr}

\* what DiscoverLabeledContainers can return: nothing, a new workload, a
\* workload whose host collides with a static one, a workload whose
\* depends_on names nothing
DynInputs ==
  { <<>>,
    << DCont("d1", <<"d1.localhost">>, "80", <<>>) >>,
    << DCont("d1", <<"s1.localhost">>, "80", <<>>) >>,
    << DCont("d2", <<"d2.localhost">>, "80", <<"ghost">>) >> }

InitDisc ==
  /\ srv = NewServer(DStatic0)
  /\ LifeInit
  /\ PickInit
  /\ ReloadInit
  /\ DiscInit

DFrame == UNCHANGED lifeVars /\ UNCHANGED pickVars /\ UNCHANGED reloadVars
          /\ UNCHANGED pure /\ UNCHANGED wakeVars /\ UNCHANGED rateVars

\* main: discoveryManager.Start has returned from its first, synchronous pass
StartupDone ==
  /\ pass["tick"].n >= 1
  /\ pass["tick"].n = 1 => pass["tick"].pc = "idle"

PassEntry(t, out) ==
  [by |-> t, gen |-> dm.gen, static |-> pass[t].static, dyn |-> pass[t].dyn,
   merged |-> pass[t].merged, last |-> dm.lastConfig, out |-> out]

\* the runs explored hold at most MaxPasses + 1 passes in all
PassesLeft == pass["tick"].n + pass["hup"].n < MaxPasses + 1

\* DiscoveryManager.Start: the first pass, then one pass per ticker tick
TickerFire ==
  /\ pass["tick"].pc = "idle"
  /\ pass["tick"].n < MaxPasses
  /\ PassesLeft
  /\ pass' = [pass EXCEPT !["tick"] =
       [pc |-> "list", n |-> @.n + 1, dyn |-> <<>>, static |-> NilCfg,
        merged |-> NilCfg, out |-> "none"]]
  /\ UNCHANGED << srv, dm, sent, passLog, bound, trustedCIDRs >>
  /\ DFrame

\* UpdateStaticConfig up to its call of runDiscovery; the signal goroutine
\* of main handles one SIGHUP at a time
UpdateStaticConfig(c) ==
  /\ StartupDone
  /\ pass["hup"].pc = "idle"
  /\ pass["hup"].n < MaxSighups
  /\ PassesLeft
  /\ dm' = [staticConfig |-> c, lastConfig |-> NilCfg, gen |-> dm.gen + 1]
  /\ pass' = [pass EXCEPT !["hup"] =
       [pc |-> "list", n |-> @.n + 1, dyn |-> <<>>, static |-> NilCfg,
        merged |-> NilCfg, out |-> "none"]]
  /\ UNCHANGED << srv, sent, passLog, bound, trustedCIDRs >>
  /\ DFrame

\* runDiscovery: DiscoverLabeledContainers, return on error
List(t) ==
  /\ pass[t].pc = "list"
  /\ \/ /\ pass' = [pass EXCEPT ![t].pc = "idle", ![t].out = "listerr"]
        /\ passLog' = Append(passLog, PassEntry(t, "listerr"))
     \/ \E dyn \in DynInputs :
          /\ pass' = [pass EXCEPT ![t].pc = "merge", ![t].dyn = dyn]
          /\ UNCHANGED passLog
  /\ UNCHANGED << srv, dm, sent, bound, trustedCIDRs >>
  /\ DFrame

RejectsNever(err) == FALSE

\* runDiscovery: if err := merged.Validate(); err != nil
Rejects(err) == err # NoErr

\* runDiscovery: mergeConfigs under dm.mu, then Validate, return on error
Merge(t) ==
  /\ pass[t].pc = "merge"
  /\ LET merged == mergeConfigs(dm.staticConfig, pass[t].dyn)
         p1 == [pass EXCEPT ![t].static = dm.staticConfig, ![t].merged = merged]
     IN IF Rejects(Validate(merged))
        THEN /\ pass' = [p1 EXCEPT ![t].pc = "idle", ![t].out = "invalid"]
             /\ passLog' = Append(passLog,
                  [PassEntry(t, "invalid") EXCEPT !.static = dm.staticConfig,
                                                  !.merged = merged])
        ELSE /\ pass' = [p1 EXCEPT ![t].pc = "compare"]
             /\ UNCHANGED passLog
  /\ UNCHANGED << srv, dm, sent, bound, trustedCIDRs >>
  /\ DFrame

EqualNever(a, b) == FALSE

\* GatewayConfig.Equal: pointer equality when one side is nil, otherwise
\* reflect.DeepEqual of the two values
Equal(a, b) == a = b

\* runDiscovery: the change detection under dm.mu
Compare(t) ==
  /\ pass[t].pc = "compare"
  /\ LET unchanged == dm.lastConfig # NilCfg /\ Equal(dm.lastConfig, pass[t].merged)
     IN IF unchanged
        THEN /\ pass' = [pass EXCEPT ![t].pc = "idle", ![t].out = "unchanged"]
             /\ passLog' = Append(passLog, PassEntry(t, "unchanged"))
             /\ UNCHANGED dm
        ELSE /\ dm' = [dm EXCEPT !.lastConfig = pass[t].merged]
             /\ pass' = [pass EXCEPT ![t].pc = "callback"]
             /\ passLog' = Append(passLog, PassEntry(t, "changed"))
  /\ UNCHANGED << srv, sent, bound, trustedCIDRs >>
  /\ DFrame

\* runDiscovery: dm.onConfigChange(merged), which is Server.ReloadConfig
\* (main.go 47), called after dm.mu was released
Callback(t) ==
  /\ pass[t].pc = "callback"
  /\ srv' = NewServer(pass[t].merged)
  /\ trustedCIDRs' = parseTrustedProxies(pass[t].merged.gateway.trustedProxies)
  /\ sent' = Append(sent, [by |-> t, static |-> pass[t].static,
                           cfg |-> pass[t].merged])
  /\ pass' = [pass EXCEPT ![t].pc = "idle", ![t].out = "delivered"]
  /\ UNCHANGED << dm, passLog, bound >>
  /\ DFrame

\* Server.Start (main.go 79): the listen address and the admin_auth value the
\* middleware closes over are taken from the configuration of that moment
ServerStart ==
  /\ StartupDone
  /\ bound = Unbound
  /\ bound' = [addr |-> srv.cfg.gateway.port,
               method |-> srv.cfg.gateway.adminAuth.method,
               auth |-> srv.cfg.gateway.adminAuth]
  /\ UNCHANGED << srv, dm, pass, sent, passLog, trustedCIDRs >>
  /\ DFrame

\* the address http.Server listens on
ListenPort == bound.addr

EnforcedAuthCurrent ==
  [method |-> bound.method, credentials |-> srv.cfg.gateway.adminAuth]

\* adminAuthMiddleware: the method was switched on when the routes were
\* built; the credentials are read through the *AdminAuthConfig taken then
EnforcedAuth == [method |-> bound.method, credentials |-> bound.auth]

NextDisc ==
  \/ TickerFire
  \/ \E c \in StaticInputs : UpdateStaticConfig(c)
  \/ \E t \in Passers : List(t)
  \/ \E t \in Passers : Merge(t)
  \/ \E t \in Passers : Compare(t)
  \/ \E t \in Passers : Callback(t)
  \/ ServerStart

SpecDisc == InitDisc /\ [][NextDisc]_vars

\* ------------------------------- handleRequest, status query and dispatch
\* The handler of a request for the one workload of CatSingle in two steps:
\* GetContainerStatus (server.go 229), then the branch taken on its result
\* (server.go 230-282). Other handlers and orchestrators run in between.
WakeHost == <<"w.localhost">>

WakeCfg == resolveConfigIn(srv.hostIndex, srv.cfg, WakeHost, "")

InspectStatus(r) ==
  /\ inspect[r] = ""
  /\ \A x \in 1..MaxReq : x < r => inspect[x] # ""
  /\ \E statusErr \in BOOLEAN :
       inspect' = [inspect EXCEPT ![r] =
                     IF statusErr THEN "error" ELSE docker[WakeCfg.name]]
  /\ UNCHANGED srv /\ UNCHANGED lifeVars /\ UNCHANGED pickVars
  /\ UNCHANGED reloadVars /\ UNCHANGED discVars /\ UNCHANGED rateVars
  /\ UNCHANGED quietVars

Dispatch(r) ==
  /\ req[r].kind = "none"
  /\ inspect[r] # ""
  /\ LET c == WakeCfg
     IN IF inspect[r] = "error"
        THEN /\ Respond(r, "direct", c.name, "error")
             /\ UNCHANGED << startStates, lastSeen, orch, batchOf >>
        ELSE IF inspect[r] = "running"
        THEN /\ lastSeen' = RecordActivity(lastSeen, c.name)
             /\ \E addrErr \in BOOLEAN :
                  Respond(r, "direct", c.name, IF addrErr THEN "proxy-error" ELSE "proxy")
             /\ UNCHANGED << startStates, orch, batchOf >>
        ELSE /\ startStates' = InitStartState(startStates, c.name)
             /\ orch' = [orch EXCEPT ![r] = Spawn(WakePlan(c), TRUE)]
             /\ batchOf' = JoinBatch(r, c.name)
             /\ RespondSpawn(r, "direct", c.name, "holding", WakePlan(c))
             /\ UNCHANGED lastSeen
  /\ UNCHANGED << srv, docker, locks, mutexes, now, log, sw, stops >>
  /\ UNCHANGED pickVars /\ UNCHANGED reloadVars
  /\ UNCHANGED discVars /\ UNCHANGED wakeVars /\ UNCHANGED rateVars

NextWake ==
  \/ \E r \in 1..MaxReq : InspectStatus(r)
  \/ \E r \in 1..MaxReq : Dispatch(r)
  \/ Steps(1..MaxReq)

SpecWake == Init /\ [][NextWake]_vars

\* --------------------------------------------------------------- shutdown
\* the parent of an orchestrator's bgCtx: context.WithTimeout(
\* context.Background(), StartTimeout + 10s) at server.go 249, 268, 326, 794
bgCtxParent == "Background"

\* a context derived from main's ctx is done once cancel() ran; one derived
\* from context.Background() only by its own deadline (the timeout of Poll)
ctxDone(parent) == parent = "root" /\ root # "live"

StopFrame == UNCHANGED srv /\ UNCHANGED lifeVars /\ UNCHANGED pickVars
             /\ UNCHANGED reloadVars /\ UNCHANGED discVars /\ UNCHANGED rateVars
             /\ UNCHANGED << inspect, th, gl, bg >>

\* main's signal goroutine on SIGTERM / SIGINT: cancel()
Cancel ==
  /\ root = "live"
  /\ root' = "cancelled"
  /\ StopFrame

\* Start returns from httpServer.Shutdown (at most 15 s later), main returns
\* and the process ends with all its goroutines
Exit ==
  /\ root = "cancelled"
  /\ root' = "exited"
  /\ StopFrame

NextStop ==
  \/ /\ root = "live"
     /\ \E r \in 1..MaxReq, h \in HostInputs, q \in QueryInputs : handleRequest(r, h, q)
  \/ /\ root # "exited"
     /\ ~ctxDone(bgCtxParent)
     /\ Steps(1..MaxReq)
  \/ root # "exited" /\ Tick
  \/ Cancel
  \/ Exit

SpecStop == Init /\ [][NextStop]_vars

\* ---------------------------------------------------------- lock discipline
HoldFrame == UNCHANGED srv /\ UNCHANGED lifeVars /\ UNCHANGED pickVars
             /\ UNCHANGED reloadVars /\ UNCHANGED discVars /\ UNCHANGED rateVars
             /\ UNCHANGED << inspect, root, bg >>

CurOp(t) == Programs[t][th[t]]

\* past the last operation the goroutine is done
Forward(t) == th' = [th EXCEPT ![t] = IF th[t] = Len(Programs[t]) THEN 0 ELSE th[t] + 1]

Busy == {t \in Threads : th[t] > 0}

HoldBegin(t) ==
  /\ th[t] = 0
  /\ Cardinality(Busy) < MaxBusy
  /\ th' = [th EXCEPT ![t] = 1]
  /\ UNCHANGED gl
  /\ HoldFrame

\* Lock: blocks while the mutex has a writer or readers
HoldLock(t) ==
  /\ th[t] > 0 /\ CurOp(t).k = "lock"
  /\ gl[CurOp(t).a] = [w |-> "", r |-> {}]
  /\ gl' = [gl EXCEPT ![CurOp(t).a].w = t]
  /\ Forward(t)
  /\ HoldFrame

HoldUnlock(t) ==
  /\ th[t] > 0 /\ CurOp(t).k = "unlock"
  /\ gl' = [gl EXCEPT ![CurOp(t).a].w = ""]
  /\ Forward(t)
  /\ HoldFrame

\* RLock: blocks while the mutex has a writer
HoldRLock(t) ==
  /\ th[t] > 0 /\ CurOp(t).k = "rlock"
  /\ gl[CurOp(t).a].w = ""
  /\ gl' = [gl EXCEPT ![CurOp(t).a].r = @ \cup {t}]
  /\ Forward(t)
  /\ HoldFrame

HoldRUnlock(t) ==
  /\ th[t] > 0 /\ CurOp(t).k = "runlock"
  /\ gl' = [gl EXCEPT ![CurOp(t).a].r = @ \ {t}]
  /\ Forward(t)
  /\ HoldFrame

\* work on the maps and fields the mutex guards
HoldMem(t) ==
  /\ th[t] > 0 /\ CurOp(t).k = "mem"
  /\ Forward(t)
  /\ UNCHANGED gl
  /\ HoldFrame

\* a runtime call, a probe, proxy I/O or the reload callback
HoldExt(t) ==
  /\ th[t] > 0 /\ CurOp(t).k = "ext"
  /\ Forward(t)
  /\ UNCHANGED gl
  /\ HoldFrame

NextHold ==
  \/ \E t \in Threads : HoldBegin(t)
  \/ \E t \in Threads : HoldLock(t)
  \/ \E t \in Threads : HoldUnlock(t)
  \/ \E t \in Threads : HoldRLock(t)
  \/ \E t \in Threads : HoldRUnlock(t)
  \/ \E t \in Threads : HoldMem(t)
  \/ \E t \in Threads : HoldExt(t)

SpecHold == Init /\ [][NextHold]_vars

\* ------------------------------------- the catalog a detached goroutine uses
SnapReqs == 1..MaxSnapReq

SnapHosts == {<<"ga.localhost">>, <<"app.localhost">>, <<"w.localhost">>,
              <<"gc.localhost">>}

SnapFrame ==
  /\ UNCHANGED << docker, locks, mutexes, now, req, orch, log, batchOf, sw, stops >>
  /\ UNCHANGED pickLog
  /\ UNCHANGED << configMu, reload, look >>
  /\ UNCHANGED << dm, pass, sent, passLog, bound, pure >>
  /\ UNCHANGED rateVars
  /\ UNCHANGED << inspect, root, th, gl >>

\* handleRequest (server.go 207-211): resolveGroup under its own RLock; from
\* records the configuration that was current at the read
SnapGroup(r, h, q) ==
  /\ bg[r].pc = "idle"
  /\ \A x \in SnapReqs : x < r => bg[x].pc # "idle"
  /\ LET g == resolveGroupIn(srv.groupIndex, h)
     IN bg' = [bg EXCEPT ![r] =
          IF g # NoGroup
          THEN [@ EXCEPT !.pc = "pick", !.kind = "group", !.h = h, !.q = q,
                         !.cfg = g, !.from = srv.cfg]
          ELSE [@ EXCEPT !.pc = "host", !.h = h, !.q = q]]
  /\ UNCHANGED << srv, startStates, lastSeen, counters, nReloads, trustedCIDRs >>
  /\ SnapFrame

\* handleRequest (server.go 213-217): resolveConfig under its own RLock
SnapHost(r) ==
  /\ bg[r].pc = "host"
  /\ LET c == resolveConfigIn(srv.hostIndex, srv.cfg, bg[r].h, bg[r].q)
     IN bg' = [bg EXCEPT ![r] =
          IF c = None THEN [@ EXCEPT !.pc = "done", !.kind = "404"]
          ELSE [@ EXCEPT !.pc = "status", !.kind = "workload", !.cfg = c,
                         !.from = srv.cfg]]
  /\ UNCHANGED << srv, startStates, lastSeen, counters, nReloads, trustedCIDRs >>
  /\ SnapFrame

\* handleGroupRequest (server.go 289-298): Pick, then s.containerMap[pickedName]
\* under RLock
SnapPick(r) ==
  /\ bg[r].pc = "pick"
  /\ LET picked == PickName(counters, bg[r].cfg)
     IN /\ counters' = PickCounters(counters, bg[r].cfg)
        /\ bg' = [bg EXCEPT ![r] =
             IF picked \in DOMAIN srv.containerMap
             THEN [@ EXCEPT !.pc = "status", !.picked = picked]
             ELSE [@ EXCEPT !.pc = "done", !.picked = picked]]
  /\ UNCHANGED << srv, startStates, lastSeen, nReloads, trustedCIDRs >>
  /\ SnapFrame

\* handleRequest (server.go 229-282): the status query and what follows it;
\* with the workload running and a dependency down the handler itself reads
\* s.GetConfig().Containers (242) and hands it to the goroutine, with the
\* workload down the goroutine is launched with the descriptor alone
SnapWorkload(r) ==
  /\ bg[r].pc = "status" /\ bg[r].kind = "workload"
  /\ LET c == bg[r].cfg
     IN \E statusErr \in BOOLEAN :
          IF statusErr
          THEN /\ bg' = [bg EXCEPT ![r].pc = "done"]
               /\ UNCHANGED << startStates, lastSeen >>
          ELSE IF docker[c.name] = "running"
          THEN IF \E i \in 1..Len(c.deps) : docker[c.deps[i]] # "running"
               THEN /\ startStates' = InitStartState(startStates, c.name)
                    /\ bg' = [bg EXCEPT ![r].pc = "read",
                                        ![r].all = srv.cfg.containers]
                    /\ UNCHANGED lastSeen
               ELSE /\ lastSeen' = RecordActivity(lastSeen, c.name)
                    /\ bg' = [bg EXCEPT ![r].pc = "done"]
                    /\ UNCHANGED startStates
          ELSE /\ startStates' = InitStartState(startStates, c.name)
               /\ bg' = [bg EXCEPT ![r].pc = "spawned"]
               /\ UNCHANGED lastSeen
  /\ UNCHANGED << srv, counters, nReloads, trustedCIDRs >>
  /\ SnapFrame

\* handleGroupRequest (server.go 307-338)
SnapMember(r) ==
  /\ bg[r].pc = "status" /\ bg[r].kind = "group"
  /\ \E statusErr \in BOOLEAN :
       IF statusErr \/ docker[bg[r].picked] # "running"
       THEN /\ startStates' = InitAll(startStates, bg[r].cfg.containers, 1)
            /\ bg' = [bg EXCEPT ![r].pc = "spawned"]
            /\ UNCHANGED lastSeen
       ELSE /\ lastSeen' = RecordActivity(lastSeen, bg[r].picked)
            /\ bg' = [bg EXCEPT ![r].pc = "done"]
            /\ UNCHANGED startStates
  /\ UNCHANGED << srv, counters, nReloads, trustedCIDRs >>
  /\ SnapFrame

\* the goroutine's first statement (server.go 270, 315-322):
\* allContainers := s.GetConfig().Containers, and for a group the
\* s.containerMap lookups of the timeout computation
SnapRead(r) ==
  /\ bg[r].pc = "spawned"
  /\ bg' = [bg EXCEPT ![r].pc = "read",
                      ![r].all = srv.cfg.containers,
                      ![r].map = IF bg[r].kind = "group" THEN srv.containerMap
                                 ELSE <<>>]
  /\ UNCHANGED << srv, startStates, lastSeen, counters, nReloads, trustedCIDRs >>
  /\ SnapFrame

\* what the goroutine goes on to start: EnsureDepsRunning / EnsureRunning for
\* a workload (server.go 251, 271-279), EnsureGroupRunning for a group (328)
SnapTasks(b) ==
  IF b.kind = "group" THEN EnsureGroupRunningTasks(b.cfg.containers, b.all, 1)
  ELSE IF Len(b.cfg.deps) > 0
       THEN LET d == EnsureDepsRunningTasks(b.cfg.name, b.all, 1)
            IN IF d = <<>> \/ docker[b.cfg.name] = "running" THEN d
               ELSE d \o << Task(b.cfg.name, FALSE, 2) >>
  ELSE << Task(b.cfg.name, FALSE, 1) >>

SnapPlan(r) ==
  /\ bg[r].pc = "read"
  /\ bg' = [bg EXCEPT ![r].pc = "planned", ![r].plan = SnapTasks(bg[r])]
  /\ UNCHANGED << srv, startStates, lastSeen, counters, nReloads, trustedCIDRs >>
  /\ SnapFrame

\* ReloadConfig (server.go 125-133), the five assignments under configMu.Lock
SnapReload(c) ==
  /\ nReloads < MaxReloads
  /\ c # srv.cfg
  /\ srv' = NewServer(c)
  /\ trustedCIDRs' = TrustedOf(c)
  /\ nReloads' = nReloads + 1
  /\ UNCHANGED << startStates, lastSeen, counters, bg >>
  /\ SnapFrame

NextSnap ==
  \/ \E r \in SnapReqs, h \in SnapHosts, q \in LookQueries : SnapGroup(r, h, q)
  \/ \E r \in SnapReqs : SnapHost(r)
  \/ \E r \in SnapReqs : SnapPick(r)
  \/ \E r \in SnapReqs : SnapWorkload(r)
  \/ \E r \in SnapReqs : SnapMember(r)
  \/ \E r \in SnapReqs : SnapRead(r)
  \/ \E r \in SnapReqs : SnapPlan(r)
  \/ \E c \in ReloadConfigs : SnapReload(c)

\* workloads app and db behind group gb; app depends on db
InitSnap ==
  /\ srv = NewServer(RCfgB)
  /\ LifeInit
  /\ PickInit
  /\ ReloadInit
  /\ DiscInit

SpecSnap == InitSnap /\ [][NextSnap]_vars

\* ------------------------------------------------------------ rate limiter
RateFrame == UNCHANGED srv /\ UNCHANGED lifeVars /\ UNCHANGED pickVars
             /\ UNCHANGED reloadVars /\ UNCHANGED discVars /\ UNCHANGED wakeVars
             /\ UNCHANGED adm

InFlight == {c \in RateCallers : rlCall[c].pc # "idle"}

muFreeAlways(mu) == TRUE

\* sync.Mutex: Lock returns only while no goroutine holds the mutex
muFree(mu) == mu = 0

\* rateLimiter.Allow: rl.mu.Lock()
AllowLock(c, ip) ==
  /\ rlCall[c].pc = "idle"
  /\ Len(rlLog) + Cardinality(InFlight) < MaxRateCalls
  /\ muFree(rl.mu)
  /\ rl' = [rl EXCEPT !.mu = c]
  /\ rlCall' = [rlCall EXCEPT ![c] = [IdleCall EXCEPT !.pc = "check", !.ip = ip]]
  /\ UNCHANGED << rlNow, rlLog >>
  /\ RateFrame

\* last, ok := rl.lastSeen[ip]; !ok || time.Since(last) >= rl.minInterval
AllowCheck(c) ==
  /\ rlCall[c].pc = "check"
  /\ LET last == rl.lastSeen[rlCall[c].ip]
         ok == last = -1 \/ rlNow - last >= RateInterval
     IN rlCall' = [rlCall EXCEPT ![c].pc = IF ok THEN "stamp" ELSE "unlock",
                                 ![c].ok = ok, ![c].t = rlNow]
  /\ UNCHANGED << rl, rlNow, rlLog >>
  /\ RateFrame

\* rl.lastSeen[ip] = time.Now()
AllowStamp(c) ==
  /\ rlCall[c].pc = "stamp"
  /\ rl' = [rl EXCEPT !.lastSeen[rlCall[c].ip] = rlNow]
  /\ rlCall' = [rlCall EXCEPT ![c].pc = "unlock", ![c].stamp = rlNow]
  /\ UNCHANGED << rlNow, rlLog >>
  /\ RateFrame

\* defer rl.mu.Unlock(), return
AllowUnlock(c) ==
  /\ rlCall[c].pc = "unlock"
  /\ rl' = [rl EXCEPT !.mu = 0]
  /\ rlLog' = Append(rlLog, [ip |-> rlCall[c].ip, t |-> rlCall[c].t,
                              ok |-> rlCall[c].ok, stamp |-> rlCall[c].stamp])
  /\ rlCall' = [rlCall EXCEPT ![c] = IdleCall]
  /\ UNCHANGED rlNow
  /\ RateFrame

staleEager(last, t) == last < t

\* evictStale: last.Before(time.Now().Add(-2 * rl.minInterval))
stale(last, t) == last < t - 2 * RateInterval

\* evictStale, under the mutex: entries older than twice the interval go
EvictStale ==
  /\ muFree(rl.mu)
  /\ rl' = [rl EXCEPT !.lastSeen =
              [k \in RateKeys |->
                 IF rl.lastSeen[k] # -1 /\ stale(rl.lastSeen[k], rlNow)
                 THEN -1 ELSE rl.lastSeen[k]]]
  /\ UNCHANGED << rlNow, rlCall, rlLog >>
  /\ RateFrame

RateTick ==
  /\ rlNow < MaxRateTime
  /\ rlNow' = rlNow + 1
  /\ UNCHANGED << rl, rlCall, rlLog >>
  /\ RateFrame

NextRate ==
  \/ \E c \in RateCallers, ip \in RateKeys : AllowLock(c, ip)
  \/ \E c \in RateCallers : AllowCheck(c)
  \/ \E c \in RateCallers : AllowStamp(c)
  \/ \E c \in RateCallers : AllowUnlock(c)
  \/ EvictStale
  \/ RateTick

SpecRate == Init /\ [][NextRate]_vars

\* -------------------------------------------------------- internal endpoints
\* checkBasicAuth: prefix, base64, SplitN(decoded, ":", 2), two comparisons
checkBasicAuthAlways(a, wantUser, wantPass) == TRUE

checkBasicAuth(a, wantUser, wantPass) ==
  /\ a.scheme = "Basic "
  /\ a.b64
  /\ Len(a.text) >= 2
  /\ a.text[1] = wantUser
  /\ Tail(a.text) = << wantPass >>

\* checkBearerToken: prefix, then the rest against the token
checkBearerToken(a, wantToken) ==
  /\ a.scheme = "Bearer "
  /\ a.text = << wantToken >>

\* adminAuthMiddleware: the switch on cfg.Method ran when Start registered
\* the routes; the credentials are read through the cfg pointer taken then
adminAuthMiddleware(a) ==
  IF bound.method = "basic"
  THEN checkBasicAuth(a, bound.auth.username, bound.auth.password)
  ELSE IF bound.method = "bearer" THEN checkBearerToken(a, bound.auth.token)
  ELSE TRUE

\* validateOrigin: url.Parse fails on "://..." without scheme; a value
\* without "://" parses to an empty Host
validateOriginAlways(o, host) == TRUE

validateOrigin(o, host) ==
  IF ~o.set THEN TRUE
  ELSE IF o.sep /\ o.scheme = "" THEN FALSE
  ELSE (IF o.sep THEN o.host ELSE <<>>) = host

\* routes registered by Server.Start
AdminPaths == {"/_status", "/_status/api", "/_status/wake", "/_metrics"}

OpenPaths == {"/_health", "/_logs"}

AdminHost == <<"gw.localhost", "8080">>

AdminRemote == <<"10.0.0.7", "5000">>

AuthzInputs ==
  {NoAuthz,
   Authz("Basic ", TRUE, <<"admin", "secret">>),
   Authz("Basic ", TRUE, <<"admin", "secret", "x">>),
   Authz("Basic ", TRUE, <<"admin">>),
   Authz("Basic ", FALSE, <<"admin", "secret">>),
   Authz("basic ", TRUE, <<"admin", "secret">>),
   Authz("Bearer ", TRUE, <<"tok">>),
   Authz("Bearer ", TRUE, <<"tok", "">>)}

OriginInputs ==
  {NoOrigin,
   Origin(TRUE, "http", TRUE, AdminHost, ""),
   Origin(TRUE, "https", TRUE, AdminHost, "/some/path"),
   Origin(TRUE, "http", TRUE, <<"evil.com">>, ""),
   Origin(TRUE, "http", TRUE, <<"gw.localhost", "9999">>, ""),
   Origin(TRUE, "", TRUE, <<"not-a-url">>, ""),
   Origin(TRUE, "", FALSE, <<>>, "null")}

AdminAuths == {AdminAuth("none", "", "", ""), AdminAuth("", "", "", ""),
               AdminAuth("basic", "admin", "secret", ""),
               AdminAuth("bearer", "", "", "tok")}

\* main after Server.Start: the catalog of CatSingle with global settings
InitAdmin ==
  /\ \E a \in AdminAuths :
       /\ srv = NewServer([gateway |-> Global("8080", <<>>, a),
                           containers |-> CatSingle.containers,
                           groups |-> CatSingle.groups])
       /\ bound = [addr |-> "8080", method |-> a.method, auth |-> a]
  /\ LifeInit
  /\ docker["w"] = "exited"
  /\ PickInit
  /\ ReloadInit
  /\ dm = [staticConfig |-> srv.cfg, lastConfig |-> NilCfg, gen |-> 0]
  /\ pass = [t \in Passers |-> IdlePass]
  /\ sent = <<>>
  /\ passLog = <<>>
  /\ trustedCIDRs = TrustedOf(srv.cfg)
  /\ pure = NoPure
  /\ inspect = [r \in Reqs |-> ""]

AdmFrame == UNCHANGED << srv, docker, lastSeen, locks, mutexes, now, req, log,
                         sw, stops, rlNow, rlCall, rlLog >>
            /\ UNCHANGED pickVars /\ UNCHANGED reloadVars
            /\ UNCHANGED discVars /\ UNCHANGED wakeVars

\* rateLimiter.Allow(s.clientIP(r)) as one step (it runs under rl.mu)
AllowOK(ip) == rl.lastSeen[ip] = -1 \/ rlNow - rl.lastSeen[ip] >= RateInterval

\* the answer written for the request in adm
Answer(handler, code, www) ==
  adm' = [adm EXCEPT !.pc = "answered", !.handler = handler, !.code = code,
                     !.wwwAuth = www]

Untouched == UNCHANGED << startStates, orch, batchOf, rl >>

\* a request reaches the mux
Arrive(path, method, a, o, name) ==
  /\ adm.pc = "idle"
  /\ adm' = [NoAdm EXCEPT !.pc = "arrived", !.path = path, !.method = method,
                          !.authz = a, !.origin = o, !.name = name]
  /\ Untouched
  /\ AdmFrame

\* handleStatusWake behind the middleware
StatusWake(ip) ==
  IF adm.method # "POST" THEN Answer("wake", "405", FALSE) /\ Untouched
  ELSE IF ~validateOrigin(adm.origin, AdminHost)
  THEN Answer("wake", "403", FALSE) /\ Untouched
  ELSE IF ~AllowOK(ip)
  THEN Answer("wake", "429", FALSE) /\ Untouched
  ELSE /\ rl' = [rl EXCEPT !.lastSeen[ip] = rlNow]
       /\ IF adm.name \notin NamesOf(srv.cfg)
          THEN /\ Answer("wake", "400", FALSE)
               /\ UNCHANGED << startStates, orch, batchOf >>
          ELSE \E r \in 1..MaxReq :
                 /\ orch[r].pc = "none"
                 /\ \A x \in 1..MaxReq : x < r => orch[x].pc # "none"
                 /\ startStates' = InitStartState(startStates, adm.name)
                 /\ orch' = [orch EXCEPT ![r] =
                              Spawn(<< Task(adm.name, FALSE, 1) >>, TRUE)]
                 /\ batchOf' = JoinBatch(r, adm.name)
                 /\ Answer("wake", "200", FALSE)

\* handleHealth, handleLogs, handleStatusAPI: Allow, then a read-only answer
\* (400 when the request names no workload); handleStatusPage and the
\* metrics handler only read
ReadOnly(ip) ==
  LET handler == CASE adm.path = "/_health" -> "health"
                   [] adm.path = "/_logs" -> "logs"
                   [] adm.path = "/_status" -> "page"
                   [] adm.path = "/_status/api" -> "api"
                   [] OTHER -> "metrics"
  IN IF adm.path \in {"/_status", "/_metrics"}
     THEN Answer(handler, "200", FALSE) /\ Untouched
     ELSE IF ~AllowOK(ip)
     THEN Answer(handler, "429", FALSE) /\ Untouched
     ELSE /\ rl' = [rl EXCEPT !.lastSeen[ip] = rlNow]
          /\ Answer(handler,
                    IF adm.path # "/_status/api"
                       /\ resolveConfigIn(srv.hostIndex, srv.cfg, AdminHost, adm.name) = None
                    THEN "400" ELSE "200", FALSE)
          /\ UNCHANGED << startStates, orch, batchOf >>

\* the handler chain of one request, from the mux to the answer
AdminRequest ==
  /\ adm.pc = "arrived"
  /\ LET ip == clientIP(AdminRemote, <<>>, trustedCIDRs)[1]
     IN IF adm.path \in AdminPaths /\ ~adminAuthMiddleware(adm.authz)
        THEN Answer("", "401", bound.method = "basic") /\ Untouched
        ELSE IF adm.path = "/_status/wake" THEN StatusWake(ip)
        ELSE ReadOnly(ip)
  /\ AdmFrame

\* the answer is on the wire
AdminDone ==
  /\ adm.pc = "answered"
  /\ adm' = NoAdm
  /\ Untouched
  /\ AdmFrame

AdminTick == adm.pc = "idle" /\ RateTick

NextAdmin ==
  \/ \E method \in {"GET", "POST"}, a \in AuthzInputs, o \in OriginInputs,
        name \in {"", "w"} : Arrive("/_status/wake", method, a, o, name)
  \/ \E path \in (AdminPaths \cup OpenPaths) \ {"/_status/wake"}, a \in AuthzInputs,
        name \in {"", "w"} : Arrive(path, "GET", a, NoOrigin, name)
  \/ AdminRequest
  \/ AdminDone
  \/ AdminTick

SpecAdmin == InitAdmin /\ [][NextAdmin]_vars

\* ------------------------------------------- pure functions, on all inputs
\* duplicate-free sequences over S of length at most n
RECURSIVE SeqsUpTo(_, _)
SeqsUpTo(S, n) ==
  IF n = 0 THEN {<<>>}
  ELSE LET shorter == SeqsUpTo(S, n - 1)
       IN shorter \cup
          {Append(p[1], p[2]) :
             p \in {q \in shorter \X S : Len(q[1]) = n - 1 /\ q[2] \notin Range(q[1])}}

\* depends_on entries: the three workloads and a name defined nowhere
DepNames == {"a", "b", "c", "x"}

\* catalogs of three workloads, valid but for their depends_on lists; the
\* lists of a and b have up to MaxDepLen entries, that of c at most one
DepCatalogs ==
  {[gateway |-> DGlobal0,
    containers |-> << DCont("a", <<"a.localhost">>, "80", da),
                      DCont("b", <<"b.localhost">>, "80", db),
                      DCont("c", <<"c.localhost">>, "80", dc) >>,
    groups |-> <<>>] :
     da \in SeqsUpTo(DepNames, MaxDepLen), db \in SeqsUpTo(DepNames, MaxDepLen),
     dc \in SeqsUpTo(DepNames, 1)}

\* static catalogs for mergeConfigs: none, one workload, and a second one
\* that has no host of its own
MergeStatics ==
  {[gateway |-> g, containers |-> cs, groups |-> <<>>] :
     g \in {DGlobal0, DGlobal1},
     cs \in {<<>>,
             << DCont("s1", <<"s1.localhost">>, "80", <<>>) >>,
             << DCont("s1", <<"s1.localhost">>, "80", <<"s0">>),
                DCont("s0", NoHost, "5432", <<>>) >>}}

\* labelled workloads: container names are unique in one listing, hosts are
\* whatever the labels say
DynNames == {"s1", "d1", "d2"}

DynHosts == {<<"s1.localhost">>, <<"d1.localhost">>, <<"d2.localhost">>}

RECURSIVE Listings(_)
Listings(n) ==
  IF n = 0 THEN {<<>>}
  ELSE LET shorter == Listings(n - 1)
       IN shorter \cup
          {Append(p[1], DCont(p[2], p[3], "80", <<>>)) :
             p \in {q \in shorter \X DynNames \X DynHosts :
                      /\ Len(q[1]) = n - 1
                      /\ \A i \in 1..Len(q[1]) : q[1][i].name # q[2]}}

Input(fn, arg) == [fn |-> fn, arg |-> arg, res |-> <<>>, done |-> FALSE]

MergeInputs ==
  {Input("merge", [static |-> s, dynamic |-> d]) :
     s \in MergeStatics, d \in Listings(MaxDynLen)}

TopoInputs ==
  {Input("topo", [target |-> t, containers |-> c.containers]) :
     t \in DepNames, c \in DepCatalogs}

ValidateInputs == {Input("validate", [cfg |-> c]) : c \in DepCatalogs}

\* sequences over S of length at most n, repetitions allowed
RECURSIVE ListsUpTo(_, _)
ListsUpTo(S, n) ==
  IF n = 0 THEN {<<>>}
  ELSE LET shorter == ListsUpTo(S, n - 1)
       IN shorter \cup
          {Append(p[1], p[2]) : p \in {q \in shorter \X S : Len(q[1]) = n - 1}}

\* catalogs of up to MaxCatLen workloads and up to MaxCatLen groups whose
\* names and hosts may repeat, within and across the two lists
HostCatalogs ==
  {[gateway |-> DGlobal0, containers |-> cs, groups |-> gs] :
     cs \in ListsUpTo({DCont(n, h, "80", <<>>) :
                         n \in {"a", "b"},
                         h \in {NoHost, <<"h1.localhost">>, <<"h2.localhost">>}},
                      MaxCatLen),
     gs \in ListsUpTo({Grp(n, h, <<"a">>) :
                         n \in {"g", "k"},
                         h \in {<<"h1.localhost">>, <<"h3.localhost">>}},
                      MaxCatLen)}

LoadInputs == {Input("load", [cfg |-> c]) : c \in HostCatalogs}

\* r.RemoteAddr: trusted peers, untrusted ones, one that net.ParseIP rejects
RemoteInputs == {<<"10.0.0.1", "12345">>, <<"8.8.8.8", "443">>,
                 <<"192.168.1.5", "80">>, <<"fe80::1%eth0", "80">>}

\* X-Forwarded-For: absent, one address, a chain with spaces, blanks only,
\* an empty first part
XffInputs == {<<>>, << <<"5.6.7.8">> >>,
              << <<" ", "203.0.113.50", " ">>, <<" ", "70.41.3.18">> >>,
              << <<" ">> >>, << <<>>, <<"1.1.1.1">> >>}

\* gateway.trusted_proxies as configured
ProxyInputs == {<<>>, <<"10.0.0.0/8">>, <<"bogus">>, <<"bogus", "192.168.0.0/16">>,
                <<"10.0.0.0/8", "192.168.0.0/16">>}

ClientIPInputs ==
  {Input("clientIP", [remote |-> r, xff |-> x, proxies |-> p]) :
     r \in RemoteInputs, x \in XffInputs, p \in ProxyInputs}

\* handleRequest, server.go 207-217: resolveGroup first, resolveConfig only
\* when no group matched, 404 when neither did
route(s, h, q) ==
  LET g == resolveGroupIn(s.groupIndex, h)
      c == resolveConfigIn(s.hostIndex, s.cfg, h, q)
  IN IF g # NoGroup THEN << "group", g.name >>
     ELSE IF c = None THEN << "404", "" >>
     ELSE << "workload", c.name >>

\* hosts with and without a port, as keys of the indices and as Host headers
RouteHosts == {<<"x.localhost">>, <<"x.localhost", "8080">>, <<"y.localhost">>}

\* one workload, with or without a group, that Validate accepts
RouteCatalogs ==
  {c \in {[gateway |-> DGlobal0,
           containers |-> << DCont("a", ha, "80", <<>>) >>,
           groups |-> gs] :
            ha \in RouteHosts,
            gs \in {<<>>} \cup {<< Grp("g", hg, <<"a">>) >> : hg \in RouteHosts}} :
     Validate(c) = NoErr}

RouteInputs ==
  {Input("route", [cfg |-> c, host |-> h, query |-> q]) :
     c \in RouteCatalogs,
     h \in RouteHosts \cup {<<"x.localhost", "9090">>, <<"nowhere.localhost">>},
     q \in {"", "a", "nope"}}

\* requests on the proxy path, fresh or relayed by an upstream proxy
ForwardInputs ==
  {Input("forward", [remote |-> r, tls |-> t, host |-> "w.localhost", xff |-> x,
                     realIP |-> ri, proto |-> p, fwdHost |-> ""]) :
     r \in {<<"192.168.1.100", "12345">>, <<"10.0.0.1", "9999">>},
     t \in BOOLEAN, x \in {<<>>, <<"203.0.113.50">>},
     ri \in {"", "original-ip"}, p \in {"", "http", "https"}}

\* ------------------------------------------- the counter of GroupRouter.Pick
\* atomic.Uint64, kept at its full width as four 16-bit limbs, most
\* significant first
Limb == 65536

U64Zero == << 0, 0, 0, 0 >>

U64Max == << Limb - 1, Limb - 1, Limb - 1, Limb - 1 >>

RECURSIVE U64Inc(_, _)
\* c + 1 modulo 2^64: the carry runs from limb i upwards
U64Inc(c, i) ==
  IF i = 0 THEN c
  ELSE IF c[i] = Limb - 1 THEN U64Inc([c EXCEPT ![i] = 0], i - 1)
  ELSE [c EXCEPT ![i] = @ + 1]

RECURSIVE U64Dec(_, _)
\* c - 1 modulo 2^64: the borrow runs from limb i upwards
U64Dec(c, i) ==
  IF i = 0 THEN c
  ELSE IF c[i] = 0 THEN U64Dec([c EXCEPT ![i] = Limb - 1], i - 1)
  ELSE [c EXCEPT ![i] = @ - 1]

\* c % n for 0 < n < 2^15
U64Mod(c, n) ==
  ((((((c[1] % n) * Limb + c[2]) % n) * Limb + c[3]) % n) * Limb + c[4]) % n

\* int64(counter.Add(1)) - 1 with Go's signed remainder: -1 % n = -1
pickIndexSigned(new, n) ==
  IF new = U64Zero THEN -1 ELSE U64Mod(U64Dec(new, 4), n)

\* group.go 117-118: idx := counter.Add(1) - 1; idx % uint64(len(...)), where
\* new is what Add returned
pickIndex(new, n) == U64Mod(U64Dec(new, 4), n)

\* counters just below the wrap, at it, and a fresh one
WrapCounters == { U64Dec(U64Dec(U64Max, 4), 4), U64Dec(U64Max, 4), U64Max,
                  U64Zero, << 0, 0, Limb - 1, Limb - 1 >> }

WrapMembers == << "a", "b", "w", "db", "app", "api", "m1" >>

WrapInputs ==
  {Input("pick", [counter |-> c, members |-> SubSeq(WrapMembers, 1, n)]) :
     c \in WrapCounters, n \in 2..Len(WrapMembers)}

AgreeInputs == {Input("agree", [cfg |-> c]) : c \in DepCatalogs}

InitPure ==
  /\ srv = NewServer(CatSingle)
  /\ LifeInit
  /\ PickInit
  /\ ReloadInit
  /\ DiscIdle
  /\ \/ pure \in MergeInputs
     \/ pure \in TopoInputs
     \/ pure \in ValidateInputs
     \/ pure \in LoadInputs
     \/ pure \in ClientIPInputs
     \/ pure \in ForwardInputs
     \/ pure \in RouteInputs
     \/ pure \in WrapInputs
     \/ pure \in AgreeInputs

PFrame == UNCHANGED << srv, dm, pass, sent, passLog, bound, trustedCIDRs, inspect >>
         /\ UNCHANGED quietVars
          /\ UNCHANGED rateVars
          /\ UNCHANGED lifeVars /\ UNCHANGED pickVars /\ UNCHANGED reloadVars

ApplyMerge ==
  /\ pure.fn = "merge" /\ ~pure.done
  /\ pure' = [pure EXCEPT !.res = mergeConfigs(pure.arg.static, pure.arg.dynamic),
                          !.done = TRUE]
  /\ PFrame

ApplyTopo ==
  /\ pure.fn = "topo" /\ ~pure.done
  /\ pure' = [pure EXCEPT !.res = TopologicalSort(pure.arg.target, pure.arg.containers),
                          !.done = TRUE]
  /\ PFrame

ApplyValidate ==
  /\ pure.fn = "validate" /\ ~pure.done
  /\ pure' = [pure EXCEPT !.res = Validate(pure.arg.cfg), !.done = TRUE]
  /\ PFrame

\* main: LoadConfig validates the catalog, NewServer builds the indices
ApplyLoad ==
  /\ pure.fn = "load" /\ ~pure.done
  /\ pure' = [pure EXCEPT !.res = [err |-> Validate(pure.arg.cfg),
                                    srv |-> NewServer(pure.arg.cfg)],
                          !.done = TRUE]
  /\ PFrame

\* NewServer parses trusted_proxies, clientIP reads the parsed list
ApplyClientIP ==
  /\ pure.fn = "clientIP" /\ ~pure.done
  /\ pure' = [pure EXCEPT !.res = clientIP(pure.arg.remote, pure.arg.xff,
                                           parseTrustedProxies(pure.arg.proxies)),
                          !.done = TRUE]
  /\ PFrame

\* proxyRequest, server.go 422
ApplyForward ==
  /\ pure.fn = "forward" /\ ~pure.done
  /\ pure' = [pure EXCEPT !.res = setForwardedHeaders(pure.arg), !.done = TRUE]
  /\ PFrame

ApplyRoute ==
  /\ pure.fn = "route" /\ ~pure.done
  /\ pure' = [pure EXCEPT !.res = route(NewServer(pure.arg.cfg), pure.arg.host,
                                        pure.arg.query),
                          !.done = TRUE]
  /\ PFrame

\* one call of GroupRouter.Pick on a group of two or more members (group.go
\* 109-119): res lists the indices computed so far
ApplyPick ==
  /\ pure.fn = "pick" /\ ~pure.done
  /\ LET new == U64Inc(pure.arg.counter, 4)
     IN pure' = [pure EXCEPT !.arg.counter = new,
                             !.res = Append(@, pickIndex(new, Len(pure.arg.members))),
                             !.done = Len(pure.res) + 1 >= MaxWrapPicks]
  /\ PFrame

\* LoadConfig's Validate and, for every workload of the catalog, the
\* TopologicalSort an orchestrator would run for it (deps.go 124-171)
ApplyAgree ==
  /\ pure.fn = "agree" /\ ~pure.done
  /\ pure' = [pure EXCEPT
       !.res = [verr |-> Validate(pure.arg.cfg),
                topo |-> [n \in NamesOf(pure.arg.cfg) |->
                            TopologicalSort(n, pure.arg.cfg.containers)]],
       !.done = TRUE]
  /\ PFrame

NextPure ==
  \/ ApplyMerge
  \/ ApplyTopo
  \/ ApplyValidate
  \/ ApplyLoad
  \/ ApplyClientIP
  \/ ApplyForward
  \/ ApplyRoute
  \/ ApplyPick
  \/ ApplyAgree

SpecPure == InitPure /\ [][NextPure]_vars

\* ================================================================ properties
LogIdx(r, ev) == {i \in 1..Len(log[r]) : log[r][i] = ev}

\* number of runtime start(name) calls issued by the orchestrators of B
StartCalls(n, B) ==
  Cardinality(UNION {{<< r, i >> : i \in LogIdx(r, << "start", n >>)} : r \in B})

\* C1: the orchestrators of N concurrent requests for one workload that is not
\* running issue the runtime start call exactly once between them: never more
\* than one call, and one call once they have all returned (an orchestrator
\* whose status query errored returns without reaching the start).
C1_ExactlyOneStart ==
  \A n \in AllNames :
    LET B == batchOf[n]
    IN B # {} =>
         /\ StartCalls(n, B) <= 1
         /\ ( /\ \A r \in B : orch[r].pc = "done"
              /\ \A r \in B : LogIdx(r, << "inspecterr", n >>) = {} )
            => StartCalls(n, B) = 1

\* C2: per-name mutual exclusion.  No two orchestrators hold the lock of the
\* same workload name; every holder holds the one lock getLock keeps for its
\* name; different names have different locks; an orchestrator waiting for a
\* lock waits for a holder working on the same name.
C2_PerNameMutex ==
  /\ \A r1, r2 \in Reqs :
       (r1 # r2 /\ orch[r1].held # 0 /\ orch[r2].held # 0)
         => CurTask(r1).name # CurTask(r2).name
  /\ \A r \in Reqs :
       orch[r].held # 0 =>
         /\ orch[r].pc \in {"check2", "start", "poll", "probe"}
         /\ orch[r].held = locks[CurTask(r).name]
         /\ mutexes[orch[r].held] = r
  /\ \A n1, n2 \in AllNames :
       (n1 # n2 /\ locks[n1] # 0) => locks[n1] # locks[n2]
  /\ \A r \in Reqs :
       LET n == CurTask(r).name
       IN (orch[r].pc = "lock" /\ locks[n] # 0 /\ mutexes[locks[n]] # 0)
            => /\ orch[mutexes[locks[n]]].held = locks[n]
               /\ CurTask(mutexes[locks[n]]).name = n

\* one orchestrator is inside the locked section while another waits for the
\* lock of the same name
C2_Witness ==
  \E r1, r2 \in Reqs :
    /\ r1 # r2
    /\ orch[r1].held # 0
    /\ orch[r1].pc = "poll"
    /\ orch[r2].pc = "lock"
    /\ CurTask(r1).name = CurTask(r2).name

LegalEdges ==
  { << "unknown", "starting" >>, << "starting", "running" >>,
    << "starting", "failed" >>, << "running", "starting" >>,
    << "failed", "starting" >> }

\* C3: a start state changes only along unknown->starting, starting->running,
\* starting->failed, running->starting, failed->starting, and to unknown only
\* by the delete that follows a successful idle stop.
C3_StartStateEdges ==
  [][\A n \in AllNames :
       LET a == startStates[n].status
           b == startStates'[n].status
       IN a # b =>
            \/ << a, b >> \in LegalEdges
            \/ /\ b = "unknown"
               /\ sw.pc = "delete"
               /\ srv.cfg.containers[sw.idx].name = n]_vars

\* C4: a wake cycle ends with the requested workload running or failed: once
\* the orchestrator of a request that got the holding page (or of a wake
\* action) has returned and no other orchestrator is in flight, the start
\* state of the requested workload is not left at starting.
C4_CycleEnds ==
  \A r \in Reqs :
    ( /\ req[r].resp \in {"holding", "ok"}
      /\ req[r].target \in AllNames
      /\ orch[r].pc = "done"
      /\ \A x \in Reqs : ~Active(x) )
    => startStates[req[r].target].status \in {"running", "failed"}

\* C5: at the moment of a StopContainer call by the idle watcher the workload
\* has a non-zero idle timeout, has recorded activity, and its last activity
\* is not newer than now - idle_timeout.
C5_NoStopOfFresh ==
  stops.name # "" => (~stops.fresh /\ ~stops.never /\ stops.idle # 0)

C8_ProxyOnlyWhenAllRunning ==
  [][\A r \in Reqs :
       ( /\ req[r].kind = "none"
         /\ req'[r].kind \in {"direct", "group"}
         /\ req'[r].target \in DOMAIN srv.containerMap )
       => LET n == req'[r].target
              allUp == /\ docker[n] = "running"
                       /\ \A d \in Range(srv.containerMap[n].deps) :
                            docker[d] = "running"
          IN /\ req'[r].resp \in {"proxy", "proxy-error"} => allUp
             /\ ~allUp => req'[r].resp \in {"holding", "error"}
             /\ req'[r].resp = "holding"
                  => /\ startStates'[n].status = "starting"
                     /\ orch[r].pc = "none" /\ orch'[r].pc # "none"
                     /\ \A x \in Reqs \ {r} : orch'[x] = orch[x]]_vars

\* the readiness probe of n has passed (probeTCPReady returned nil)
Probed(n) == \E x \in Reqs : LogIdx(x, << "ready", n >>) # {}

StartsOf(r) == SelectSeq(log[r], LAMBDA e : e[1] = "start")

\* C9: for a request that found the whole dependency chain of its workload
\* stopped, every runtime start call of its orchestrator is issued after the
\* dependencies of the started workload, and the workload the orchestrator
\* started just before, have passed their readiness probe, and no start call
\* follows the one for the target.
C9_TopologicalStarts ==
  [][\A r \in Reqs :
       ( /\ req[r].cold /\ req[r].kind = "direct"
         /\ Len(log'[r]) = Len(log[r]) + 1
         /\ log'[r][Len(log'[r])][1] = "start" )
       => LET n == log'[r][Len(log'[r])][2]
              prev == StartsOf(r)
          IN /\ \A d \in Range(srv.containerMap[n].deps) : Probed(d)
             /\ Len(prev) > 0 => Probed(prev[Len(prev)][2])
             /\ \A i \in 1..Len(prev) : prev[i][2] # req[r].target]_vars

\* C10: the k-th Pick on a group of n >= 2 members (k = 0, 1, ...) returns
\* members[k mod n], whatever picks on other groups are interleaved; a
\* single-member group returns its member, an empty group the empty string.
C10_RoundRobin ==
  \A g \in PickGroups :
    LET n == Len(g.containers)
        L == pickLog[g.name]
    IN \A k \in 1..Len(L) :
         L[k] = IF n = 0 THEN ""
                ELSE IF n = 1 THEN g.containers[1]
                ELSE g.containers[((k - 1) % n) + 1]

\* four picks on the three-member group wrapped around to the first member,
\* with picks on the other groups in between
C10_Witness ==
  /\ pickLog["triple"] = << "a", "b", "c", "a" >>
  /\ Len(pickLog["pair"]) = 1
  /\ Len(pickLog["single"]) = 1
  /\ Len(pickLog["empty"]) = 1
\* the responses handleRequest can give for workload n in the current
\* runtime state (server.go 228-283)
DirectOutcomes(n) ==
  IF /\ docker[n] = "running"
     /\ \A d \in Range(srv.containerMap[n].deps) : docker[d] = "running"
  THEN {"error", "proxy", "proxy-error"}
  ELSE {"error", "holding"}

\* C11: a request routed through a group is answered, after the pick, as a
\* request routed directly to the picked member would be in the same runtime
\* state: proxied only when the member and all its dependencies are running,
\* error page on a status error, holding page otherwise.
C11_GroupAsDirect ==
  [][\A r \in Reqs :
       ( /\ req[r].kind = "none"
         /\ req'[r].kind = "group"
         /\ req'[r].target \in DOMAIN srv.containerMap )
       => req'[r].resp \in DirectOutcomes(req'[r].target)]_vars

\* C12: every configuration view a discovery pass hands to the Server
\* carries the group definitions of the static catalog it was merged from,
\* so that afterwards a request for a static group's host resolves to it.
C12_GroupsSurvivePass ==
  /\ \A i \in 1..Len(sent) : sent[i].cfg.groups = sent[i].static.groups
  /\ Len(sent) > 0 =>
       LET gs == sent[Len(sent)].static.groups
       IN \A k \in 1..Len(gs) : resolveGroupIn(srv.groupIndex, gs[k].host) = gs[k]

\* C13: a pass whose listing of labelled workloads fails, or whose merged
\* catalog fails validation, ends without invoking the reload callback and
\* leaves the Server's configuration, indices and trusted proxies and the
\* last-delivered cache as they were; what the callback is given has passed
\* validation.
C13_FailedPassChangesNothing ==
  [][ /\ \A t \in Passers :
           ( /\ pass[t].out = "none"
             /\ pass'[t].out \in {"listerr", "invalid"} )
           => /\ pass[t].pc \in {"list", "merge"}
              /\ pass'[t].pc = "idle"
              /\ srv' = srv
              /\ trustedCIDRs' = trustedCIDRs
              /\ dm'.lastConfig = dm.lastConfig
              /\ sent' = sent
      /\ \A t \in Passers :
           (pass[t].pc = "merge" /\ Validate(mergeConfigs(dm.staticConfig, pass[t].dyn)) # NoErr)
           => (pass'[t] # pass[t] => pass'[t].out = "invalid")
      /\ sent' # sent => Validate(sent'[Len(sent')].cfg) = NoErr
      /\ dm'.lastConfig # dm.lastConfig =>
           \/ dm'.lastConfig = NilCfg
           \/ Validate(dm'.lastConfig) = NoErr ]_vars

\* a listing failed and a merged catalog was rejected, after a view had been
\* delivered, and the Server still runs on the delivered view
C13_Witness ==
  /\ Len(sent) > 0
  /\ \E i, j \in 1..Len(passLog) :
       /\ passLog[i].out = "invalid"
       /\ passLog[j].out = "listerr"
       /\ passLog[i].last # NilCfg
  /\ srv.cfg = sent[Len(sent)].cfg

\* passes that reached the change detection
Decided(e) == e.out \in {"changed", "unchanged"}

C15_ReloadTakesEffect ==
  ( /\ pass["hup"].n >= 1
    /\ pass["hup"].pc = "idle"
    /\ pass["hup"].out \in {"delivered", "unchanged"} )
  => \E dyn \in DynInputs : srv.cfg = mergeConfigs(dm.staticConfig, dyn)

\* C16: once the server has started, no reload changes the listening port or
\* the admin-auth method and credentials that are enforced; a reload changes
\* the catalog, the routing indices and the trusted-proxy list only.
C16_ReloadKeepsPortAndAuth ==
  [][ /\ bound # Unbound =>
           /\ bound' # Unbound
           /\ ListenPort' = ListenPort
           /\ EnforcedAuth' = EnforcedAuth
      /\ srv' # srv =>
           /\ \E t \in Passers : pass[t].pc = "callback" /\ pass'[t].pc = "idle"
           /\ srv' = NewServer(sent'[Len(sent')].cfg)
           /\ trustedCIDRs' =
                parseTrustedProxies(sent'[Len(sent')].cfg.gateway.trustedProxies)
           /\ UNCHANGED << bound, lifeVars, pickVars >> ]_vars

\* the server has started and a reload then installed a catalog with another
\* port, other admin-auth settings and other trusted proxies
C16_Witness ==
  /\ bound # Unbound
  /\ srv.cfg.gateway.port # ListenPort
  /\ srv.cfg.gateway.adminAuth # EnforcedAuth.credentials
  /\ trustedCIDRs = << "192.168.0.0/16" >>
  /\ Len(srv.cfg.containers) = 2


\* the entries of d at the indices in K, in the order of d
Restrict(d, K) ==
  [n \in 1..Cardinality(K) |->
     d[CHOOSE i \in K : Cardinality({j \in K : j <= i}) = n]]

Collides(x, y) == x.host = y.host \/ x.name = y.name

\* the indices of the dynamic entries that collide with no static entry and
\* with no earlier dynamic entry that was itself kept
KeptSets(st, d) ==
  {K \in SUBSET (1..Len(d)) :
     \A i \in 1..Len(d) :
       i \in K <=> /\ \A k \in 1..Len(st) : ~Collides(d[i], st[k])
                   /\ \A j \in K : j < i => ~Collides(d[i], d[j])}

\* C17: mergeConfigs returns the static workloads in their order, followed by
\* exactly the dynamic workloads, in enumeration order, whose host and name
\* both differ from every entry already in the result; the global settings
\* of the result are those of the static catalog.
C17_MergeStaticFirstNoCollision ==
  (pure.fn = "merge" /\ pure.done) =>
    LET st == pure.arg.static.containers
        d == pure.arg.dynamic
    IN /\ pure.res.gateway = pure.arg.static.gateway
       /\ \E K \in KeptSets(st, d) : pure.res.containers = st \o Restrict(d, K)

\* a merge where one dynamic entry lost against a static one, one against an
\* earlier dynamic one, and one was kept
C17_Witness ==
  /\ pure.fn = "merge" /\ pure.done
  /\ Len(pure.arg.static.containers) > 0
  /\ Len(pure.arg.dynamic) = 3
  /\ Len(pure.res.containers) = Len(pure.arg.static.containers) + 1
  /\ \E i \in 1..3 : \E k \in 1..Len(pure.arg.static.containers) :
        Collides(pure.arg.dynamic[i], pure.arg.static.containers[k])
  /\ \E i, j \in 1..3 :
        /\ j < i
        /\ Collides(pure.arg.dynamic[i], pure.arg.dynamic[j])
        /\ \A k \in 1..Len(pure.arg.static.containers) :
             /\ ~Collides(pure.arg.dynamic[i], pure.arg.static.containers[k])
             /\ ~Collides(pure.arg.dynamic[j], pure.arg.static.containers[k])


\* C18: when simultaneous requests hit a stopped workload whose start and
\* readiness probe succeed, its start state goes starting -> running once:
\* after it became running nothing sets it back to starting, and it is set
\* to failed only by an orchestrator whose own runtime call failed.
C18_RunningStaysRunning ==
  [][startStates["w"].status = "running"
       => startStates'["w"].status \in {"running", "failed"}]_vars


\* the names reachable from S along depends_on
RECURSIVE Reach(_, _)
Reach(S, containers) ==
  LET T == S \cup UNION {Range(DepsOf(containers, n)) : n \in S}
  IN IF T = S THEN S ELSE Reach(T, containers)

\* C19: when TopologicalSort succeeds, the list holds exactly the target and
\* its transitive dependencies, each once, every dependency of a listed
\* workload before that workload, the target last; a target with empty
\* depends_on yields the one-element list of the target.
C19_TopoOrder ==
  (pure.fn = "topo" /\ pure.done /\ ~pure.res.err) =>
    LET o == pure.res.order
        t == pure.arg.target
        cs == pure.arg.containers
    IN /\ Range(o) = Reach({t}, cs)
       /\ \A i, j \in 1..Len(o) : i # j => o[i] # o[j]
       /\ \A i \in 1..Len(o) : \A d \in Range(DepsOf(cs, o[i])) :
            \E j \in 1..(i - 1) : o[j] = d
       /\ Len(o) > 0 /\ o[Len(o)] = t
       /\ DepsOf(cs, t) = <<>> => o = << t >>

\* a successful sort of a target with two dependencies, one of which
\* depends on the other
C19_Witness ==
  /\ pure.fn = "topo" /\ pure.done /\ ~pure.res.err
  /\ Len(pure.res.order) = 3
  /\ Len(DepsOf(pure.arg.containers, pure.arg.target)) = 2
  /\ \E n \in Range(DepsOf(pure.arg.containers, pure.arg.target)) :
        Len(DepsOf(pure.arg.containers, n)) = 1


CatalogNames(cs) == {cs[i].name : i \in 1..Len(cs)}

\* some depends_on entry names no workload of the catalog
HasUndefinedRef(cs) ==
  \E i \in 1..Len(cs) : \E d \in Range(cs[i].deps) : d \notin CatalogNames(cs)

HasSelfRef(cs) == \E i \in 1..Len(cs) : cs[i].name \in Range(cs[i].deps)

\* some workload reaches itself along one or more depends_on edges
HasCycle(cs) ==
  \E n \in CatalogNames(cs) : n \in Reach(Range(DepsOf(cs, n)), cs)

\* C20: Validate rejects every catalog whose depends_on graph has a cycle of
\* any length (a self-dependency included) or a reference to an undefined
\* workload, accepts the catalog when the graph is acyclic and every
\* reference is defined, and the error reported for a cycle carries the
\* cycle: a chain of depends_on edges that leads from a workload to itself.
C20_ValidateDependsOn ==
  (pure.fn = "validate" /\ pure.done) =>
    LET cs == pure.arg.cfg.containers
        e == pure.res
        full == Append(e.path, e.ref)
    IN /\ (e # NoErr) <=> (HasCycle(cs) \/ HasUndefinedRef(cs))
       /\ e.kind \in {"", "cycle", "unknown-dependency", "self-dependency"}
       /\ (HasCycle(cs) /\ ~HasUndefinedRef(cs) /\ ~HasSelfRef(cs)) => e.kind = "cycle"
       /\ e.kind = "cycle" =>
            \E k \in 1..Len(e.path) :
              /\ full[k] = e.ref
              /\ \A i \in k..Len(e.path) : full[i + 1] \in Range(DepsOf(cs, full[i]))

\* a catalog rejected for the cycle a -> b -> c -> a
C20_Witness ==
  /\ pure.fn = "validate" /\ pure.done
  /\ pure.res.kind = "cycle"
  /\ Len(pure.res.path) = 3
  /\ pure.res.path[1] = pure.res.ref


\* C21: in a configuration accepted by Validate no non-empty host is used by
\* two workloads, by two groups, or by a workload and a group, and workload
\* names and group names are each unique; so the workload host index and the
\* group host index have disjoint key sets and every host maps to the one
\* workload or group that declares it.
C21_ValidatedHostsUnique ==
  (pure.fn = "load" /\ pure.done /\ pure.res.err = NoErr) =>
    LET cs == pure.arg.cfg.containers
        gs == pure.arg.cfg.groups
        hIdx == pure.res.srv.hostIndex
        gIdx == pure.res.srv.groupIndex
    IN /\ \A i, j \in 1..Len(cs) : i # j =>
            /\ cs[i].name # cs[j].name
            /\ cs[i].host = cs[j].host => cs[i].host = NoHost
       /\ \A i, j \in 1..Len(gs) : i # j =>
            /\ gs[i].name # gs[j].name
            /\ gs[i].host # gs[j].host
       /\ \A i \in 1..Len(cs) : \A j \in 1..Len(gs) : cs[i].host # gs[j].host
       /\ DOMAIN hIdx \cap DOMAIN gIdx = {}
       /\ \A i \in 1..Len(cs) : cs[i].host # NoHost =>
            cs[i].host \in DOMAIN hIdx /\ hIdx[cs[i].host] = cs[i]
       /\ \A j \in 1..Len(gs) :
            gs[j].host \in DOMAIN gIdx /\ gIdx[gs[j].host] = gs[j]

\* an accepted catalog with two hosted workloads and a group
C21_Witness ==
  /\ pure.fn = "load" /\ pure.done /\ pure.res.err = NoErr
  /\ Len(pure.arg.cfg.containers) = 2
  /\ \A i \in 1..2 : pure.arg.cfg.containers[i].host # NoHost
  /\ Len(pure.arg.cfg.groups) = 1


\* C22: for every client-IP key, two admitted calls of Allow are at least the
\* minimum interval apart, also when calls run concurrently; an admitted
\* call stamps the timestamp of its own key, a rejected call changes no
\* timestamp, and no call changes the timestamp of another key.
C22_RateLimitPerKey ==
  /\ [](\A i, j \in 1..Len(rlLog) :
          (i < j /\ rlLog[i].ip = rlLog[j].ip /\ rlLog[i].ok /\ rlLog[j].ok)
            => /\ rlLog[j].t - rlLog[i].t >= RateInterval
               /\ rlLog[i].t - rlLog[j].t < RateInterval)
  /\ [][/\ \A k \in RateKeys :
           (rl'.lastSeen[k] # rl.lastSeen[k] /\ rl'.lastSeen[k] # -1) =>
             \E c \in RateCallers :
               /\ rlCall[c].ip = k /\ rlCall[c].ok
               /\ rlCall'[c].stamp = rl'.lastSeen[k]
               /\ rl'.lastSeen[k] = rlNow
        /\ \A k \in RateKeys :
           (rl.lastSeen[k] # -1 /\ rl'.lastSeen[k] = -1) =>
             rlNow - rl.lastSeen[k] > 2 * RateInterval
        /\ rlLog' # rlLog =>
             LET e == rlLog'[Len(rlLog')]
             IN IF e.ok THEN rl'.lastSeen[e.ip] = e.stamp /\ e.stamp >= e.t
                ELSE e.stamp = -1 /\ rl'.lastSeen[e.ip] # -1]_vars

\* one key admitted, rejected inside the interval, admitted again after it,
\* while a call for the other key was in progress
C22_Witness ==
  /\ Len(rlLog) = 3
  /\ \A i \in 1..3 : rlLog[i].ip = rlLog[1].ip
  /\ rlLog[1].ok /\ ~rlLog[2].ok /\ rlLog[3].ok


\* the direct peer lies inside one of the configured CIDR blocks
PeerTrusted(remote, proxies) ==
  LET o == ParseIP(remote[1])
  IN /\ o # <<>>
     /\ \/ "10.0.0.0/8" \in Range(proxies) /\ o[1] = 10
        \/ "192.168.0.0/16" \in Range(proxies) /\ o[1] = 192 /\ o[2] = 168

\* C23: for a direct peer outside every configured trusted-proxy CIDR (so
\* whenever trusted_proxies is empty) the rate-limit key is the direct-peer
\* IP whatever X-Forwarded-For says; only for a trusted peer with a
\* non-empty X-Forwarded-For is it the first comma-separated part of it.
C23_ClientIPKey ==
  (pure.fn = "clientIP" /\ pure.done) =>
    LET a == pure.arg
    IN IF PeerTrusted(a.remote, a.proxies) /\ a.xff # <<>>
       THEN /\ pure.res = TrimSpace(a.xff[1])
            /\ " " \notin {pure.res[i] : i \in {1, Len(pure.res)} \cap DOMAIN pure.res}
       ELSE /\ pure.res = << a.remote[1] >>
            /\ ~PeerTrusted(a.remote, a.proxies) =>
                 \A x \in XffInputs :
                   clientIP(a.remote, x, parseTrustedProxies(a.proxies)) = pure.res

\* an untrusted peer that sent X-Forwarded-For while proxies are configured
C23_Witness ==
  /\ pure.fn = "clientIP" /\ pure.done
  /\ pure.arg.proxies = <<"bogus", "192.168.0.0/16">>
  /\ pure.arg.remote[1] = "10.0.0.1"
  /\ Len(pure.arg.xff) = 2
  /\ pure.res = <<"10.0.0.1">>


\* the Origin header names a host other than the request's Host, or none
OriginDiffers(o, host) ==
  o.set /\ (~o.sep \/ o.scheme = "" \/ o.host # host)

\* C24: a wake request (POST, past the admin-auth middleware) whose Origin
\* header is present and names another host than Host, or cannot be parsed,
\* is answered 403 and changes no start state, launches no orchestrator and
\* consumes no rate-limit admission; without Origin header the request
\* passes the origin check.
C24_CrossOriginWakeBlocked ==
  [][(adm.pc = "arrived" /\ adm'.pc = "answered" /\ adm.path = "/_status/wake"
        /\ adm.method = "POST" /\ adm'.handler = "wake") =>
       /\ OriginDiffers(adm.origin, AdminHost) =>
            /\ adm'.code = "403"
            /\ UNCHANGED << startStates, orch, batchOf, rl, docker >>
       /\ ~adm.origin.set => adm'.code \in {"200", "400", "429"}]_vars

\* a cross-origin wake for a stopped workload was refused while the caller
\* still had its rate-limit admission
C24_Witness ==
  /\ adm.path = "/_status/wake" /\ adm.method = "POST" /\ adm.code = "403"
  /\ adm.origin.host = <<"gw.localhost", "9999">>
  /\ startStates["w"].status = "unknown"
  /\ \A k \in RateKeys : rl.lastSeen[k] = -1

\* the credentials of a request are exactly the configured ones
ExactCredentials(a, cfg) ==
  IF cfg.method = "basic"
  THEN a.scheme = "Basic " /\ a.b64 /\ a.text = << cfg.username, cfg.password >>
  ELSE a.scheme = "Bearer " /\ a.text = << cfg.token >>

\* C25: under admin-auth basic or bearer a handler behind /_status,
\* /_status/api, /_status/wake or /_metrics runs only for a request with
\* exactly matching credentials; any other request gets 401 (with
\* WWW-Authenticate under basic only), no handler and no state change;
\* /_health and /_logs reach their handler without credentials under every
\* method
C25_AdminAuthGuardsHandlers ==
  [][(adm.pc = "arrived" /\ adm'.pc = "answered") =>
       LET cfg == srv.cfg.gateway.adminAuth
       IN /\ (adm.path \in AdminPaths /\ cfg.method \in {"basic", "bearer"}) =>
               IF ExactCredentials(adm.authz, cfg)
               THEN adm'.handler # "" /\ adm'.code # "401"
               ELSE /\ adm'.handler = ""
                    /\ adm'.code = "401"
                    /\ adm'.wwwAuth = (cfg.method = "basic")
                    /\ UNCHANGED << startStates, orch, batchOf, rl, docker >>
          /\ adm.path \in OpenPaths =>
               adm'.handler \in {"health", "logs"} /\ adm'.code # "401"]_vars

\* a wake with a password that only starts with the configured one was
\* refused under basic, and the stopped workload was left alone
C25_Witness ==
  /\ bound.method = "basic"
  /\ adm.pc = "answered" /\ adm.path = "/_status/wake" /\ adm.method = "POST"
  /\ adm.authz = Authz("Basic ", TRUE, <<"admin", "secret", "x">>)
  /\ adm.code = "401" /\ adm.wwwAuth
  /\ startStates["w"].status = "unknown"

\* C26: once the root context is cancelled, no orchestrator issues another
\* start call or carries a readiness probe to success
C26_RootCancelStopsOrchestration ==
  [][root = "cancelled" =>
       \A r \in 1..MaxReq :
         log'[r] # log[r] => log'[r][Len(log'[r])][1] \notin {"start", "ready"}]_vars

\* C27: the request handed to the backend keeps an X-Forwarded-Proto value
\* it arrived with; without one the header is https on a TLS connection and
\* http otherwise
C27_ForwardedProto ==
  (pure.fn = "forward" /\ pure.done) =>
    pure.res.proto = IF pure.arg.proto # "" THEN pure.arg.proto
                     ELSE IF pure.arg.tls THEN "https" ELSE "http"

\* orchestrator r leaves its current task in this step
LeavesTask(r) == orch[r].pc \notin {"none", "done"} /\ orch'[r].ti # orch[r].ti

\* ... because the readiness probe passed, or because the dependency was
\* found running by the dependency loop
TaskPassed(r) == log'[r] = Append(log[r], << "ready", CurTask(r).name >>)

TaskSkipped(r) ==
  orch[r].pc = "depcheck" /\ docker[CurTask(r).name] = "running" /\ log' = log

\* the tasks after the current one in the same dependency chain
LaterInChain(r) ==
  {j \in (orch[r].ti + 1)..Len(orch[r].plan) :
     orch[r].plan[j].chain = CurTask(r).chain}

C29_PollFailureNoRetry ==
  /\ [](\A r \in 1..MaxReq :
          Cardinality(LogIdx(r, << "start", "w" >>)) <= 1)
  /\ [][\A r \in 1..MaxReq :
          LET n == CurTask(r).name
              failedAs(msg) == /\ startStates'[n] = [status |-> "failed", err |-> msg]
                               /\ orch'[r].pc = "done"
                               /\ log' = log
          IN /\ (orch[r].pc = "poll" /\ orch'[r] # orch[r]) =>
                  \/ /\ docker[n] = "running"
                     /\ orch'[r].pc = "probe"
                     /\ startStates' = startStates
                  \/ docker[n] = "exited" /\ failedAs("container exited unexpectedly")
                  \/ failedAs("start timeout")
             /\ (orch[r].pc = "start" /\ orch'[r] # orch[r] /\ orch'[r].pc # "poll") =>
                  /\ startStates'[n] = [status |-> "failed", err |-> "docker start failed"]
                  /\ orch'[r].pc = "done"
                  /\ docker' = docker]_vars

\* an orchestrator returned after its one start call because the container
\* had exited
C29_Witness ==
  \E r \in 1..MaxReq :
    /\ orch[r].pc = "done"
    /\ log[r] = << << "start", "w" >> >>
    /\ docker["w"] = "exited"
    /\ startStates["w"] = [status |-> "failed", err |-> "container exited unexpectedly"]

\* the resolution order as stated: exact Host among the groups, exact Host
\* among the workloads, port-stripped Host among both, ?container=NAME
ResolutionOrder(c, h, q) ==
  LET gs == c.groups
      cs == c.containers
      grp(x) == {i \in 1..Len(gs) : gs[i].host = x}
      wl(x) == {i \in 1..Len(cs) : cs[i].host = x}
      named == {i \in 1..Len(cs) : cs[i].name = q}
  IN IF grp(h) # {} THEN << "group", gs[CHOOSE i \in grp(h) : TRUE].name >>
     ELSE IF wl(h) # {} THEN << "workload", cs[CHOOSE i \in wl(h) : TRUE].name >>
     ELSE IF HasPort(h) /\ grp(StripPort(h)) # {}
     THEN << "group", gs[CHOOSE i \in grp(StripPort(h)) : TRUE].name >>
     ELSE IF HasPort(h) /\ wl(StripPort(h)) # {}
     THEN << "workload", cs[CHOOSE i \in wl(StripPort(h)) : TRUE].name >>
     ELSE IF q # "" /\ named # {}
     THEN << "workload", cs[CHOOSE i \in named : TRUE].name >>
     ELSE << "404", "" >>

\* C30: a request is routed by the first hit of: exact Host in the group
\* index, exact Host in the workload index, port-stripped Host in both,
\* ?container=NAME; with no hit it gets 404
C30_ResolutionOrder ==
  (pure.fn = "route" /\ pure.done) =>
    pure.res = ResolutionOrder(pure.arg.cfg, pure.arg.host, pure.arg.query)

\* the locks goroutine t holds
Held(t) == {l \in DOMAIN gl : gl[l].w = t \/ t \in gl[l].r}

\* C31: a goroutine about to make a runtime call, a probe, proxy I/O or the
\* reload callback holds none of ContainerManager.mu, configMu, the rate
\* limiter's, the group router's and the discovery manager's mutex; it may
\* hold the per-workload start lock
C31_NoGlobalLockAcrossExternalCall ==
  \A t \in Threads :
    (th[t] > 0 /\ CurOp(t).k = "ext") => Held(t) \cap GlobalLocks = {}

\* an orchestrator is about to call StartContainer under the start lock
\* while the sweeper is inside ContainerManager.mu
C31_Witness ==
  /\ th["wake"] > 0 /\ CurOp("wake") = Op("ext", "StartContainer")
  /\ Held("wake") = {"start"}
  /\ Held("sweeper") = {"mu"}

\* C32: the orchestrator launched for a request works on the catalog captured
\* at dispatch: the workload list it resolves dependencies against, and the
\* name map a group's timeout is computed from, belong to the configuration
\* its descriptor (or group) was resolved in, whatever ReloadConfig does in
\* between.
C32_OrchestratorUsesDispatchSnapshot ==
  \A r \in SnapReqs :
    bg[r].pc \in {"read", "planned"}
      => /\ bg[r].all = bg[r].from.containers
         /\ bg[r].kind = "group" => bg[r].map = BuildContainerMap(bg[r].from)

\* C33: lastSeen[name] is stamped with the current time by every request that
\* is proxied to name with success and by no other step; it never decreases
\* and, once present, is never removed; the snapshot a sweep takes holds every
\* stamp made before it.
C33_LastSeenOnlyOnProxy ==
  [][/\ \A r \in Reqs :
          (req[r].kind = "none" /\ req'[r].kind # "none")
            => IF req'[r].resp = "proxy"
               THEN lastSeen' = [lastSeen EXCEPT ![req'[r].target] = now]
               ELSE lastSeen' = lastSeen
     /\ (\A r \in Reqs : req'[r] = req[r]) => lastSeen' = lastSeen
     /\ \A n \in AllNames : lastSeen'[n] >= lastSeen[n]
     /\ (sw.pc = "wait" /\ sw'.pc = "loop") => sw'.snapshot = lastSeen]_vars

\* C34: within one sweep a status error or a failed stop for one workload
\* leaves that workload's start state and lastSeen as they were, and the
\* sweeper goes on to the next workload of the catalog: a pass ends only
\* after the last workload has been evaluated.
C34_SweepErrorIsolation ==
  [][sw' # sw =>
       /\ (sw.pc = "loop" /\ sw.idx <= Len(srv.cfg.containers))
            => \/ sw' = [sw EXCEPT !.pc = "stop"]
               \/ /\ sw' = [sw EXCEPT !.idx = @ + 1]
                  /\ startStates' = startStates /\ lastSeen' = lastSeen
                  /\ docker' = docker
       /\ (sw.pc = "stop" /\ docker' = docker)
            => /\ sw' = [sw EXCEPT !.pc = "loop", !.idx = @ + 1]
               /\ startStates' = startStates /\ lastSeen' = lastSeen
       /\ sw'.pc = "wait" => sw.pc = "loop" /\ sw.idx > Len(srv.cfg.containers)
       /\ sw'.pc # "wait" => sw'.idx <= Len(srv.cfg.containers) + 1]_vars

\* workload a was due in this pass and running all along, yet the sweeper is
\* past it, a's start state and lastSeen untouched, and has stopped b
C34_Witness ==
  /\ sw.pc = "delete" /\ sw.idx = 2
  /\ docker["a"] = "running" /\ startStates["a"] = Unknown
  /\ idleDue(srv.cfg.containers[1], sw.snapshot, sw.now)
  /\ lastSeen["a"] = sw.snapshot["a"]
  /\ docker["b"] = "exited"

\* C35: when a group's unsigned counter reaches its maximum and wraps to 0,
\* Pick still returns a member: for every group size the index computed
\* before, at and after the wrap lies within 0..len(members)-1.
C35_PickIndexInRangeAcrossWrap ==
  pure.fn = "pick"
    => \A i \in 1..Len(pure.res) :
         /\ pure.res[i] \in 0..(Len(pure.arg.members) - 1)
         /\ pure.arg.members[pure.res[i] + 1] \in Range(pure.arg.members)

\* the counter has wrapped to 0 and gone on: picks were made before the wrap,
\* by the call whose Add returned 0, and after it
C35_Witness ==
  /\ pure.fn = "pick"
  /\ Len(pure.arg.members) = 3
  /\ pure.arg.counter = << 0, 0, 0, 1 >>
  /\ pure.res = << 1, 2, 0, 0 >>

\* C36: while a start cycle for a workload is in flight (its start state was
\* set to starting by a request and the orchestrator of that request has not
\* finished) the idle sweeper neither stops the workload nor deletes its
\* start state, however old its lastSeen is.
C36_SweeperSparesStartCycle ==
  [][\A n \in AllNames :
       ( /\ startStates[n].status = "starting"
         /\ \E r \in Reqs : Active(r) /\ n \in PlanNames(orch[r].plan) )
       => /\ startStates'[n].status # "unknown"
          /\ ~(sw.pc = "stop" /\ sw'.pc = "delete" /\ docker'[n] # docker[n])]_vars

\* C37: whenever no discovery pass is in progress the configuration active in
\* the Server is the discovery manager's cached lastConfig, however a periodic
\* pass and a reload-triggered pass interleave.
C37_ServerOnCachedView ==
  ( /\ \A t \in Passers : pass[t].pc = "idle"
    /\ dm.lastConfig # NilCfg )
  => srv.cfg = dm.lastConfig

\* C38: every read of the Server's configuration fields by a request handler
\* or by the goroutine it spawns is made under configMu's reader lock: no read
\* happens while ReloadConfig holds the lock for writing.
C38_ConfigReadsUnderReaderLock ==
  [][\A t \in Looks : look'[t].seen # look[t].seen => ~configMu.writer]_vars

\* what a limiter that never evicts answers to the i-th returned call: its
\* entry for the key is the stamp of the latest admitted call before it
NoEvictionAllows(i) ==
  LET prev == {j \in 1..(i - 1) : rlLog[j].ip = rlLog[i].ip /\ rlLog[j].ok}
  IN prev = {} \/ rlLog[i].t - rlLog[SetMax(prev)].stamp >= RateInterval

\* C39: eviction is transparent to admission: every call of Allow returns
\* what it would return had no cleanup pass ever run, and a cleanup pass
\* removes exactly the entries older than twice the minimum interval.
C39_EvictionTransparent ==
  /\ [](\A i \in 1..Len(rlLog) : rlLog[i].ok = NoEvictionAllows(i))
  /\ [][(\E k \in RateKeys : rl.lastSeen[k] # -1 /\ rl'.lastSeen[k] = -1)
          => \A k \in RateKeys :
               rl'.lastSeen[k] =
                 IF rl.lastSeen[k] # -1 /\ rlNow - rl.lastSeen[k] > 2 * RateInterval
                 THEN -1 ELSE rl.lastSeen[k]]_vars

\* a key admitted earlier has lost its entry to a cleanup pass, and a later
\* call for it has just been admitted on the missing entry
C39_Witness ==
  \E c \in RateCallers :
    /\ rlCall[c].pc = "stamp"
    /\ rl.lastSeen[rlCall[c].ip] = -1
    /\ \E i \in 1..Len(rlLog) : rlLog[i].ip = rlCall[c].ip /\ rlLog[i].ok

\* C40: Validate and TopologicalSort agree on the dependency graph: in a
\* catalog that Validate accepts the sort succeeds for every workload name,
\* ending with that name, and a catalog in which the sort fails from some
\* workload (a cycle, an unknown dependency) is rejected by Validate.
C40_ValidateAgreesWithSort ==
  (pure.fn = "agree" /\ pure.done)
    => /\ pure.res.verr = NoErr
            => \A n \in DOMAIN pure.res.topo :
                 /\ ~pure.res.topo[n].err
                 /\ pure.res.topo[n].order[Len(pure.res.topo[n].order)] = n
       /\ (\E n \in DOMAIN pure.res.topo : pure.res.topo[n].err)
            => pure.res.verr # NoErr

\* an accepted catalog with the chain a -> b -> c, sorted for each of them
C40_Witness ==
  /\ pure.fn = "agree" /\ pure.done
  /\ pure.res.verr = NoErr
  /\ pure.res.topo["a"].order = << "c", "b", "a" >>
  /\ pure.res.topo["b"].order = << "c", "b" >>

====
